---- MODULE Spec2Model ----
(***************************************************************************)
(* PYSINT: the bounded-concurrency probe engine of Brute-ForceScan.py      *)
(* (load_wordlist, run_bruteforce, attempt_login, main), of                *)
(* directory-fuzzer.py (load_wordlist, scan_paths, test_path, main), of    *)
(* param-finder.py (load_wordlist, scan_parameters, test_param, main), of  *)
(* SQLi-Scanner.py (run_sqli_scan, test_sqli), of XSS-Scanner.py           *)
(* (run_xss_scan, test_xss) and of port-scan.py (port_scan, scan_port).    *)
(*                                                                         *)
(* Python values are represented as follows.  A str is a sequence of       *)
(* one-character strings.  None is the empty tuple and any other optional  *)
(* value v is <<v>>.  A dict is a record.  A reason string such as         *)
(* "status_change:200->302" is a record whose field tag is the text before *)
(* the colon and whose other fields are the values formatted into it.      *)
(***************************************************************************)
EXTENDS Integers, Sequences, FiniteSets, TLC

-----------------------------------------------------------------------------
(* Bounds of the model                                                     *)

MaxLines == 2
MaxCap == 2
MaxConcurrent == 2
MaxRetries == 1
MaxLen == 121
MaxPaths == 2
MaxBaseline == 5

-----------------------------------------------------------------------------
(* Python values                                                           *)

None == <<>>
Some(v) == <<v>>

Str1(c) == <<c>>
Rep(c, n) == [i \in 1..n |-> c]

Min(a, b) == IF a < b THEN a ELSE b
Max(a, b) == IF a > b THEN a ELSE b
Abs(a) == IF a < 0 THEN -a ELSE a

\* str.lower() on the alphabet of the model
LowerChar(c) ==
    CASE c = "W" -> "w"
      [] c = "A" -> "a"
      [] OTHER -> c

Lower(s) == [i \in 1..Len(s) |-> LowerChar(s[i])]

\* needle in hay, for str
Contains(hay, needle) ==
    \E i \in 0..(Len(hay) - Len(needle)) :
        SubSeq(hay, i + 1, i + Len(needle)) = needle

IsSpace(c) == c = " "

RECURSIVE LStrip(_)
LStrip(s) ==
    IF s # <<>> /\ IsSpace(Head(s)) THEN LStrip(Tail(s)) ELSE s

RECURSIVE RStrip(_)
RStrip(s) ==
    IF s # <<>> /\ IsSpace(s[Len(s)])
    THEN RStrip(SubSeq(s, 1, Len(s) - 1))
    ELSE s

\* str.strip()
Strip(s) == RStrip(LStrip(s))

RECURSIVE StripLines(_)
StripLines(lines) ==
    IF lines = <<>> THEN <<>>
    ELSE IF Strip(Head(lines)) # <<>>
         THEN <<Strip(Head(lines))>> \o StripLines(Tail(lines))
         ELSE StripLines(Tail(lines))

\* lines[:limit] for limit > 0
SliceTo(lines, limit) == SubSeq(lines, 1, Min(limit, Len(lines)))

\* load_wordlist that forgets the limit
load_wordlist_uncapped(file, limit) ==
    IF file = None THEN <<>> ELSE StripLines(file[1])

\* load_wordlist(file_path, limit): a file that cannot be opened or read is
\* None, a readable one is <<its lines>>
load_wordlist(file, limit) ==
    IF file = None THEN <<>>
    ELSE IF limit > 0 THEN SliceTo(StripLines(file[1]), limit)
         ELSE StripLines(file[1])

\* sequences over S of length 0..n
SeqsUpTo(S, n) == UNION {[1..k -> S] : k \in 0..n}

-----------------------------------------------------------------------------
(* Brute-ForceScan.py: the classifier of attempt_login                     *)

\* main sets len_threshold_pct = 20 in both modes; no option changes it
len_threshold_pct == 20

SuccessCheck(keyword, baseline_status, baseline_len, allow_redirect) ==
    [keyword |-> keyword,
     baseline_status |-> baseline_status,
     baseline_len |-> baseline_len,
     len_threshold_pct |-> len_threshold_pct,
     allow_redirect |-> allow_redirect]

\* KeywordRule without the two lower() calls
KeywordRuleCaseSensitive(resp, sc) ==
    /\ sc.keyword # None
    /\ sc.keyword[1] # <<>>
    /\ Contains(resp.text, sc.keyword[1])

\* KeywordRule without the test that the keyword is not empty
KeywordRuleEmptyMatches(resp, sc) ==
    /\ sc.keyword # None
    /\ Contains(Lower(resp.text), Lower(sc.keyword[1]))

\* 1. keyword and keyword.lower() in resp.text.lower()
KeywordRule(resp, sc) ==
    /\ sc.keyword # None
    /\ sc.keyword[1] # <<>>
    /\ Contains(Lower(resp.text), Lower(sc.keyword[1]))

\* 2. success_check.get("allow_redirect") and resp.history
RedirectRule(resp, sc) ==
    sc.allow_redirect /\ resp.history # <<>>

\* 3. baseline_status is not None and resp.status_code != baseline_status
StatusRule(resp, sc) ==
    /\ sc.baseline_status # None
    /\ resp.status_code # sc.baseline_status[1]

\* PctAtLeast with the comparison made strict
PctAbove(diff, baseline_len, threshold) ==
    diff * 100 > threshold * Max(1, baseline_len)

\* PctAtLeast dividing by the baseline length as it is
PctOfRawBaseline(diff, baseline_len, threshold) ==
    diff * 100 >= threshold * baseline_len

\* pct >= len_threshold_pct with pct = (diff / max(1, baseline_len)) * 100.
\* The quotient is a double; for the threshold 20 the double comparison and
\* the exact one agree (diff / b is the double nearest 1/5 exactly when
\* 5 * diff = b, and that double times 100 is 20.0), so the comparison is
\* taken over the integers.
PctAtLeast(diff, baseline_len, threshold) ==
    diff * 100 >= threshold * Max(1, baseline_len)

\* 4. baseline_len is not None and pct >= len_threshold_pct
LengthRule(resp, sc) ==
    /\ sc.baseline_len # None
    /\ PctAtLeast(Abs(Len(resp.text) - sc.baseline_len[1]),
                  sc.baseline_len[1], sc.len_threshold_pct)

HitDict(u, p, resp, reason) ==
    [username |-> u, password |-> p, status |-> Some(resp.status_code),
     reason |-> reason, response_length |-> Len(resp.text)]

\* Classify with the status rule tried before the keyword and redirect rules
ClassifyStatusFirst(resp, sc, u, p) ==
    IF StatusRule(resp, sc)
    THEN Some(HitDict(u, p, resp,
                      [tag |-> "status_change",
                       old |-> sc.baseline_status[1],
                       new |-> resp.status_code]))
    ELSE IF KeywordRule(resp, sc)
    THEN Some(HitDict(u, p, resp, [tag |-> "keyword", word |-> sc.keyword[1]]))
    ELSE IF RedirectRule(resp, sc)
    THEN Some(HitDict(u, p, resp, [tag |-> "redirect"]))
    ELSE IF LengthRule(resp, sc)
    THEN Some(HitDict(u, p, resp,
                      [tag |-> "len_diff",
                       diff100 |-> Abs(Len(resp.text) - sc.baseline_len[1]) * 100,
                       over |-> Max(1, sc.baseline_len[1])]))
    ELSE None

\* the body of the try block after the response has arrived: the dict
\* returned, or None when no rule matches
Classify(resp, sc, u, p) ==
    IF KeywordRule(resp, sc)
    THEN Some(HitDict(u, p, resp, [tag |-> "keyword", word |-> sc.keyword[1]]))
    ELSE IF RedirectRule(resp, sc)
    THEN Some(HitDict(u, p, resp, [tag |-> "redirect"]))
    ELSE IF StatusRule(resp, sc)
    THEN Some(HitDict(u, p, resp,
                      [tag |-> "status_change",
                       old |-> sc.baseline_status[1],
                       new |-> resp.status_code]))
    ELSE IF LengthRule(resp, sc)
    THEN Some(HitDict(u, p, resp,
                      [tag |-> "len_diff",
                       diff100 |-> Abs(Len(resp.text) - sc.baseline_len[1]) * 100,
                       over |-> Max(1, sc.baseline_len[1])]))
    ELSE None

\* the dict returned when the retries are exhausted
RequestErrorDict(u, p, e) ==
    [username |-> u, password |-> p, status |-> None,
     reason |-> [tag |-> "request_error"], error |-> e]

\* the dict returned on any other exception
UnexpectedErrorDict(u, p, e) ==
    [username |-> u, password |-> p, status |-> None,
     reason |-> [tag |-> "error", type |-> e.type], error |-> e.msg]

\* RetryLeft with one attempt too many
RetryLeftInclusive(attempt, r) == attempt <= r

\* attempt < retries
RetryLeft(attempt, r) == attempt < r

\* range(retries + 1) is not empty
LoopRuns(r) == r + 1 > 0

\* a filter that lets every dict through
IsReportedAny(r) == r # None

\* res and "reason" in res and
\* not res["reason"].startswith(("request_error", "error:"))
IsReported(r) ==
    /\ r # None
    /\ "reason" \in DOMAIN r[1]
    /\ r[1].reason.tag \notin {"request_error", "error"}

-----------------------------------------------------------------------------
(* Brute-ForceScan.py: state of main, run_bruteforce and the attempt_login *)
(* coroutines                                                              *)

VARIABLES
    userlist,        \* the username file: None (cannot be read) or <<lines>>
    passlist,        \* the password file
    max_users,       \* --max-users
    max_pass,        \* --max-pass
    max_concurrent,  \* --concurrent
    retries,         \* --retries
    success_check,   \* the dict built by main
    mainpc,          \* where main / run_bruteforce stands
    usernames,       \* load_wordlist(userlist, max_users)
    passwords,       \* load_wordlist(passlist, max_pass)
    tasks,           \* run_bruteforce's list of coroutines, as their (u, p)
    sem,             \* the semaphore's value
    pc,              \* per coroutine: created, start, request, backoff, returned
    attempt,         \* per coroutine: the loop variable of attempt_login
    sent,            \* per coroutine: the network calls it has issued
    last,            \* per coroutine: what the transport answered last, or None
    res,             \* per coroutine: the value it returned
    doneq,           \* as_completed's queue of finished coroutines
    taken,           \* the coroutines the completion loop has awaited, in order
    completed,       \* the progress bar's completed count
    total,           \* the progress bar's total
    results,         \* run_bruteforce's results list
    saved,           \* what main handed to save_results_json_csv, or None
    args,            \* the parsed command line that main reads before the lists
    delay_between,   \* --delay
    baseline_sent,   \* the requests of main's baseline client
    console,         \* the error lines printed so far, oldest first
    exit_status,     \* None while the process runs, then its exit status
    sleeps,          \* the delay_between sleeps run_bruteforce has finished
    began,           \* per coroutine: the value of sleeps at its first request
    ended,           \* the coroutines that have returned, oldest first
    backoff,         \* --backoff, in units of the sleep clock
    waits            \* per coroutine: the backoff sleeps it has begun, in order

bfInputs == <<userlist, passlist, max_users, max_pass, max_concurrent,
              retries, success_check, delay_between, backoff>>
bfTasks == <<pc, attempt, sent, last, res, doneq, sem>>
bfLoop == <<taken, completed, results>>
mainVars == <<args, baseline_sent, console, exit_status>>
bfHist == <<sleeps, began, ended, waits>>
bfVars == <<bfInputs, mainpc, usernames, passwords, tasks, total, bfTasks,
            bfLoop, saved, mainVars, bfHist>>

\* directory-fuzzer.py: state of main, scan_paths and the test_path tasks
VARIABLES
    fz_wordlist,     \* the wordlist file: None (cannot be read) or <<lines>>
    fz_limit,        \* --limit
    fz_concurrent,   \* --concurrent
    fz_mainpc,       \* where main / scan_paths stands
    paths,           \* load_wordlist(wordlist_file, limit)
    fz_sem,          \* the semaphore's value
    fz_pc,           \* per task: start, request, finished, done
    fz_log,          \* per task: what the transport answered, or None
    fz_ret,          \* per task: the value test_path returned
    active_paths,    \* the list the test_path tasks append to
    fz_completed,    \* the progress bar's completed count
    fz_total,        \* the progress bar's total
    found,           \* scan_paths' first return value
    all_results,     \* scan_paths' second return value
    fz_saved         \* what main handed to save_results, or None

fzInputs == <<fz_wordlist, fz_limit, fz_concurrent>>
fzTasks == <<fz_sem, fz_pc, fz_log, fz_ret, active_paths, fz_completed>>
fzVars == <<fzInputs, fz_mainpc, paths, fz_total, fzTasks, found,
            all_results, fz_saved>>

\* param-finder.py: state of scan_parameters and the test_param tasks
VARIABLES
    pf_wordlist,     \* the wordlist file: None (cannot be read) or <<lines>>
    pf_limit,        \* --limit
    pf_params,       \* load_wordlist(wordlist_file, limit)
    pf_concurrent,   \* max_concurrent
    pf_mainpc,       \* where scan_parameters stands
    pf_sem,          \* the semaphore's value
    pf_pc,           \* per task: start, request, returned
    pf_ret,          \* per task: the dict test_param returned, or None
    pf_doneq,        \* as_completed's queue of finished tasks
    pf_ended,        \* the tasks that have returned, oldest first
    pf_completed,    \* the progress bar's completed count
    pf_total,        \* the progress bar's total
    pf_results,      \* scan_parameters' results list
    active_params    \* scan_parameters' active_params list

pfVars == <<pf_wordlist, pf_limit, pf_params, pf_concurrent, pf_mainpc, pf_sem, pf_pc, pf_ret,
            pf_doneq, pf_ended, pf_completed, pf_total, pf_results,
            active_params>>

\* SQLi-Scanner.py: state of run_sqli_scan and the test_sqli tasks
VARIABLES
    sq_parameters,   \* the parameters list run_sqli_scan is given
    sq_wordlist,     \* the payload file: None (not found) or <<lines>>
    sq_max_payloads, \* max_payloads
    sq_concurrent,   \* max_concurrent
    sq_mainpc,       \* where run_sqli_scan stands
    sq_tasks,        \* the (param, payload) of each task created
    sq_sem,          \* the semaphore's value
    sq_pc,           \* per task: start, request, returned
    sq_ret,          \* per task: the dict test_sqli returned, or None
    sq_doneq,        \* as_completed's queue of finished tasks
    sq_ended,        \* the tasks that have returned, oldest first
    sq_completed,    \* the progress bar's completed count
    sq_total,        \* the progress bar's total
    sq_results       \* run_sqli_scan's results list

sqVars == <<sq_parameters, sq_wordlist, sq_max_payloads, sq_concurrent,
            sq_mainpc, sq_tasks, sq_sem, sq_pc, sq_ret, sq_doneq, sq_ended,
            sq_completed, sq_total, sq_results>>

\* XSS-Scanner.py: state of run_xss_scan and the test_xss coroutines
VARIABLES
    xs_parameters,   \* the parameters list
    xs_wordlist,     \* WORDLIST_FILE: None (not found) or <<lines>>
    xs_max_payloads, \* max_payloads
    xs_mainpc,       \* where run_xss_scan stands
    xs_tasks,        \* the (param, payload) of each coroutine of tasks
    xs_pc,           \* per coroutine: request, returned
    xs_ret,          \* per coroutine: the value test_xss returned
    vulns            \* run_xss_scan's vulns list

xsVars == <<xs_parameters, xs_wordlist, xs_max_payloads, xs_mainpc, xs_tasks,
            xs_pc, xs_ret, vulns>>

\* port-scan.py: state of port_scan, its thread pool and its futures
VARIABLES
    ps_ports,        \* the ports list port_scan is given
    max_threads,     \* max_threads
    ps_mainpc,       \* where port_scan stands
    ps_pc,           \* per future: queued, running, finished, yielded
    ps_ret,          \* per future: the dict scan_port returned, or None
    open_ports,      \* port_scan's open_ports list
    ps_all_results,  \* port_scan's all_results list
    ps_completed     \* the progress bar's completed count

psVars == <<ps_ports, max_threads, ps_mainpc, ps_pc, ps_ret, open_ports,
            ps_all_results, ps_completed>>

vars == <<bfVars, fzVars, pfVars, sqVars, xsVars, psVars>>

TaskIds == 1..Len(tasks)

\* the semaphore slots in use: coroutines inside "async with semaphore"
Holding == {t \in TaskIds : pc[t] \in {"request", "backoff"}}

\* the (u, p) of the k-th iteration of "for u in usernames: for p in passwords"
Combo(us, ps, k) ==
    [username |-> us[((k - 1) \div Len(ps)) + 1],
     password |-> ps[((k - 1) % Len(ps)) + 1]]

\* the exit status of an interpreter ended by an unhandled KeyboardInterrupt
\* (128 + SIGINT)
SigintStatus == 130

\* a semaphore created one slot too wide
NewSemaphoreWide(n) == n + 1

\* run_bruteforce, line 178: asyncio.Semaphore(max_concurrent)
NewSemaphore(n) == n

\* load_wordlist, lines 220-225: the line printed for a file that cannot be
\* opened or read
WordlistErrors(file) ==
    IF file = None THEN <<"wordlist_unreadable">> ELSE <<>>

\* the scan abandoned only when both lists are empty
NothingToScanBoth(us, ps) == us = <<>> /\ ps = <<>>

\* main, line 411: not usernames or not passwords
NothingToScan(us, ps) == us = <<>> \/ ps = <<>>

\* main, lines 407-413: load both wordlists; leave when one is empty
LoadWordlists ==
    /\ mainpc = "load"
    /\ usernames' = load_wordlist(userlist, max_users)
    /\ passwords' = load_wordlist(passlist, max_pass)
    /\ mainpc' = IF NothingToScan(usernames', passwords')
                 THEN "exit" ELSE "build"
    /\ sem' = IF mainpc' = "build" THEN NewSemaphore(max_concurrent) ELSE sem
    /\ console' = console \o WordlistErrors(userlist) \o WordlistErrors(passlist)
                   \o (IF NothingToScan(usernames', passwords')
                       THEN <<"wordlists_invalid_or_empty">> ELSE <<>>)
    /\ UNCHANGED <<args, baseline_sent, exit_status, bfHist>>
    /\ UNCHANGED <<fzVars, pfVars, sqVars, xsVars, psVars, bfInputs, tasks, total, pc, attempt, sent, last, res, doneq,
                   bfLoop, saved>>

\* run_bruteforce, lines 185-194: one iteration of the nested loops
BuildTask ==
    /\ mainpc = "build"
    /\ Len(tasks) < Len(usernames) * Len(passwords)
    /\ tasks' = Append(tasks, Combo(usernames, passwords, Len(tasks) + 1))
    /\ pc' = Append(pc, "created")
    /\ attempt' = Append(attempt, 0)
    /\ sent' = Append(sent, 0)
    /\ last' = Append(last, None)
    /\ res' = Append(res, None)
    /\ began' = Append(began, None)
    /\ waits' = Append(waits, <<>>)
    /\ sleeps' = IF delay_between > 0 THEN sleeps + 1 ELSE sleeps
    /\ UNCHANGED <<mainVars, ended>>
    /\ UNCHANGED <<fzVars, pfVars, sqVars, xsVars, psVars, bfInputs, mainpc, usernames, passwords, total, doneq, sem,
                   bfLoop, saved>>

\* run_bruteforce, lines 196-205: the progress bar gets its total and
\* as_completed schedules every coroutine of the list
StartProgress ==
    /\ mainpc = "build"
    /\ Len(tasks) = Len(usernames) * Len(passwords)
    /\ total' = Len(usernames) * Len(passwords)
    /\ pc' = [t \in TaskIds |-> "start"]
    /\ mainpc' = "gather"
    /\ UNCHANGED <<mainVars, bfHist>>
    /\ UNCHANGED <<fzVars, pfVars, sqVars, xsVars, psVars, bfInputs, usernames, passwords, tasks, attempt, sent, last, res,
                   doneq, sem, bfLoop, saved>>

\* an exit from "async with semaphore" that keeps the slot
ReleasedNever(n) == n

\* attempt_login, line 64: leaving "async with semaphore", by return or by
\* exception, releases the slot
Released(n) == n + 1

\* a coroutine ends: its value goes to the completion queue
Finish(t, value) ==
    /\ pc' = [pc EXCEPT ![t] = "returned"]
    /\ res' = [res EXCEPT ![t] = value]
    /\ doneq' = Append(doneq, t)
    /\ ended' = Append(ended, t)

\* attempt_login, lines 64-76: enter "async with semaphore" and, when the
\* loop has an iteration, send the first request; with no iteration the
\* function falls off its end and returns None
Acquire(t) ==
    /\ mainpc = "gather"
    /\ pc[t] = "start"
    /\ sem > 0
    /\ IF LoopRuns(retries)
       THEN /\ sem' = sem - 1
            /\ pc' = [pc EXCEPT ![t] = "request"]
            /\ sent' = [sent EXCEPT ![t] = @ + 1]
            /\ began' = [began EXCEPT ![t] = Some(sleeps)]
            /\ UNCHANGED <<res, doneq, ended>>
       ELSE /\ sem' = sem
            /\ Finish(t, None)
            /\ sent' = sent
            /\ began' = began
    /\ UNCHANGED <<mainVars, sleeps, waits>>
    /\ UNCHANGED <<fzVars, pfVars, sqVars, xsVars, psVars, bfInputs, mainpc, usernames, passwords, tasks, total,
                   attempt, last, bfLoop, saved>>

\* a response after a retry answered with the error dict of the failure
\* before it
RespondStale(t, r) ==
    /\ mainpc = "gather"
    /\ pc[t] = "request"
    /\ last' = [last EXCEPT ![t] = Some([kind |-> "response", resp |-> r])]
    /\ Finish(t, IF attempt[t] > 0
                 THEN Some(RequestErrorDict(tasks[t].username,
                                            tasks[t].password,
                                            last[t][1].error))
                 ELSE Classify(r, success_check, tasks[t].username,
                               tasks[t].password))
    /\ sem' = Released(sem)
    /\ UNCHANGED <<mainVars, sleeps, began, waits>>
    /\ UNCHANGED <<fzVars, pfVars, sqVars, xsVars, psVars, bfInputs, mainpc, usernames, passwords, tasks, total,
                   attempt, sent, bfLoop, saved>>

\* attempt_login, lines 71-134: the call completes with response r, which is
\* classified; the coroutine returns and leaves the semaphore
Respond(t, r) ==
    /\ mainpc = "gather"
    /\ pc[t] = "request"
    /\ last' = [last EXCEPT ![t] = Some([kind |-> "response", resp |-> r])]
    /\ Finish(t, Classify(r, success_check, tasks[t].username,
                          tasks[t].password))
    /\ sem' = Released(sem)
    /\ UNCHANGED <<mainVars, sleeps, began, waits>>
    /\ UNCHANGED <<fzVars, pfVars, sqVars, xsVars, psVars, bfInputs, mainpc, usernames, passwords, tasks, total,
                   attempt, sent, bfLoop, saved>>

\* a backoff sleep of the same length after every failure
BackoffWaitFlat(b, a) == b

\* attempt_login, line 140: the argument of asyncio.sleep after the failure
\* of the attempt with loop index a
BackoffWait(b, a) == b * (a + 1)

\* a handler of RequestError that sleeps outside "async with semaphore"
TransientErrorReleasing(t, e) ==
    /\ mainpc = "gather"
    /\ pc[t] = "request"
    /\ last' = [last EXCEPT ![t] = Some([kind |-> "request_error", error |-> e])]
    /\ sem' = Released(sem)
    /\ IF RetryLeft(attempt[t], retries)
       THEN /\ pc' = [pc EXCEPT ![t] = "backoff"]
            /\ waits' = [waits EXCEPT
                             ![t] = Append(@, BackoffWait(backoff, attempt[t]))]
            /\ UNCHANGED <<res, doneq, ended>>
       ELSE /\ Finish(t, Some(RequestErrorDict(tasks[t].username,
                                               tasks[t].password, e)))
            /\ waits' = waits
    /\ UNCHANGED <<mainVars, sleeps, began>>
    /\ UNCHANGED <<fzVars, pfVars, sqVars, xsVars, psVars, bfInputs, mainpc, usernames, passwords, tasks, total,
                   attempt, sent, bfLoop, saved>>

\* attempt_login, lines 136-148: the call raises httpx.RequestError e
TransientError(t, e) ==
    /\ mainpc = "gather"
    /\ pc[t] = "request"
    /\ last' = [last EXCEPT ![t] = Some([kind |-> "request_error", error |-> e])]
    /\ IF RetryLeft(attempt[t], retries)
       THEN /\ pc' = [pc EXCEPT ![t] = "backoff"]
            /\ waits' = [waits EXCEPT
                             ![t] = Append(@, BackoffWait(backoff, attempt[t]))]
            /\ UNCHANGED <<res, doneq, sem, ended>>
       ELSE /\ Finish(t, Some(RequestErrorDict(tasks[t].username,
                                               tasks[t].password, e)))
            /\ sem' = Released(sem)
            /\ waits' = waits
    /\ UNCHANGED <<mainVars, sleeps, began>>
    /\ UNCHANGED <<fzVars, pfVars, sqVars, xsVars, psVars, bfInputs, mainpc, usernames, passwords, tasks, total,
                   attempt, sent, bfLoop, saved>>

\* attempt_login, lines 140-141 and 65-76: the backoff sleep ends, the loop
\* goes to its next iteration and sends the request again
Retry(t) ==
    /\ mainpc = "gather"
    /\ pc[t] = "backoff"
    /\ attempt' = [attempt EXCEPT ![t] = @ + 1]
    /\ pc' = [pc EXCEPT ![t] = "request"]
    /\ sent' = [sent EXCEPT ![t] = @ + 1]
    /\ UNCHANGED <<mainVars, bfHist>>
    /\ UNCHANGED <<fzVars, pfVars, sqVars, xsVars, psVars, bfInputs, mainpc, usernames, passwords, tasks, total,
                   last, res, doneq, sem, bfLoop, saved>>

\* attempt_login without its "except Exception": the exception leaves the
\* coroutine and "await coro" raises it in run_bruteforce
UnexpectedErrorUncaught(t, e) ==
    /\ mainpc = "gather"
    /\ pc[t] = "request"
    /\ mainpc' = "raised"
    /\ UNCHANGED <<mainVars, bfHist>>
    /\ UNCHANGED <<fzVars, pfVars, sqVars, xsVars, psVars, bfInputs, usernames, passwords, tasks, total,
                   bfTasks, bfLoop, saved>>

\* an "except Exception" that retries like the handler of RequestError
UnexpectedErrorRetried(t, e) ==
    /\ mainpc = "gather"
    /\ pc[t] = "request"
    /\ last' = [last EXCEPT ![t] = Some([kind |-> "exception", exc |-> e])]
    /\ IF RetryLeft(attempt[t], retries)
       THEN /\ pc' = [pc EXCEPT ![t] = "backoff"]
            /\ waits' = [waits EXCEPT
                             ![t] = Append(@, BackoffWait(backoff, attempt[t]))]
            /\ UNCHANGED <<res, doneq, sem, ended>>
       ELSE /\ Finish(t, Some(UnexpectedErrorDict(tasks[t].username,
                                                  tasks[t].password, e)))
            /\ sem' = Released(sem)
            /\ waits' = waits
    /\ UNCHANGED <<mainVars, sleeps, began>>
    /\ UNCHANGED <<fzVars, pfVars, sqVars, xsVars, psVars, bfInputs, mainpc, usernames,
                   passwords, tasks, total, attempt, sent, bfLoop, saved>>

\* attempt_login, lines 149-158: any other exception e
UnexpectedError(t, e) ==
    /\ mainpc = "gather"
    /\ pc[t] = "request"
    /\ last' = [last EXCEPT ![t] = Some([kind |-> "exception", exc |-> e])]
    /\ Finish(t, Some(UnexpectedErrorDict(tasks[t].username,
                                          tasks[t].password, e)))
    /\ sem' = Released(sem)
    /\ UNCHANGED <<mainVars, sleeps, began, waits>>
    /\ UNCHANGED <<fzVars, pfVars, sqVars, xsVars, psVars, bfInputs, mainpc, usernames, passwords, tasks, total,
                   attempt, sent, bfLoop, saved>>

\* a progress bar advanced twice for one outcome
AdvancedTwice(n) == n + 2

\* progress.advance(task_id), line 207
Advanced(n) == n + 1

\* a queue that keeps the element handed out
WithoutNothing(q, i) == q

\* the queue without its i-th element
Without(q, i) == SubSeq(q, 1, i - 1) \o SubSeq(q, i + 1, Len(q))

\* a completion queue that hands out the newest finished task first
NextDoneNewest(q) == Len(q)

\* asyncio.as_completed: each coroutine it yields returns the result of the
\* task that has waited longest in its queue of finished tasks
NextDone(q) == IF q = <<>> THEN 0 ELSE 1

\* run_bruteforce, lines 205-210: one iteration of the completion loop
Consume ==
    /\ mainpc = "gather"
    /\ doneq # <<>>
    /\ LET t == doneq[NextDone(doneq)]
       IN  /\ doneq' = Without(doneq, NextDone(doneq))
           /\ taken' = Append(taken, t)
           /\ completed' = Advanced(completed)
           /\ results' = IF IsReported(res[t])
                         THEN Append(results, res[t][1])
                         ELSE results
    /\ UNCHANGED <<mainVars, bfHist>>
    /\ UNCHANGED <<fzVars, pfVars, sqVars, xsVars, psVars, bfInputs, mainpc, usernames, passwords, tasks, total, pc,
                   attempt, sent, last, res, sem, saved>>

\* the loop left as soon as no finished coroutine is waiting
ExhaustedEarly == doneq = <<>>

\* "for coro in asyncio.as_completed(tasks)" has yielded every coroutine
Exhausted == Len(taken) = Len(tasks)

\* run_bruteforce, line 211: as_completed is exhausted, return results
ReturnResults ==
    /\ mainpc = "gather"
    /\ Exhausted
    /\ mainpc' = "returned"
    /\ UNCHANGED <<mainVars, bfHist>>
    /\ UNCHANGED <<fzVars, pfVars, sqVars, xsVars, psVars, bfInputs, usernames, passwords, tasks, total, bfTasks,
                   bfLoop, saved>>

\* main, lines 436-442: the returned list goes to save_results_json_csv
SaveResults ==
    /\ mainpc = "returned"
    /\ saved' = Some(results)
    /\ mainpc' = "done"
    /\ UNCHANGED <<mainVars, bfHist>>
    /\ UNCHANGED <<fzVars, pfVars, sqVars, xsVars, psVars, bfInputs, usernames, passwords, tasks, total, bfTasks,
                   bfLoop>>

\* asyncio.run, line 428, on SIGINT: the task running run_bruteforce is
\* cancelled at its await (the delay sleep of the build loop or the "await
\* coro" of the completion loop), the CancelledError leaves run_bruteforce,
\* asyncio.run cancels every task still pending (each leaves "async with
\* semaphore" on the way out) and raises KeyboardInterrupt, which main does
\* not catch: the interpreter ends on the signal.  Coroutines the build loop
\* created and as_completed never wrapped are never run.
Interrupt ==
    /\ \/ mainpc = "gather"
       \/ mainpc = "build" /\ delay_between > 0 /\ tasks # <<>>
    /\ pc' = [t \in TaskIds |->
                 IF pc[t] \in {"start", "request", "backoff"}
                 THEN "cancelled" ELSE pc[t]]
    /\ sem' = sem + Cardinality(Holding)
    /\ mainpc' = "interrupted"
    /\ exit_status' = Some(SigintStatus)
    /\ UNCHANGED <<args, baseline_sent, console, bfHist>>
    /\ UNCHANGED <<fzVars, pfVars, sqVars, xsVars, psVars, bfInputs, usernames, passwords, tasks, total,
                   attempt, sent, last, res, doneq, bfLoop, saved>>

-----------------------------------------------------------------------------
(* Brute-ForceScan.py: main in CLI mode, from the parsed arguments to the  *)
(* end of the process                                                      *)

\* json.loads(text) returns a value; on the texts of the model, which are
\* made of braces only, the one JSON document is the empty object
JsonLoads(text) == text = <<"{", "}">>

\* the truth value of an optional str: None and "" are false
Truthy(s) == s # None /\ s[1] # <<>>

\* line 416: success_keyword.strip() if success_keyword else None
StrippedKeyword(k) == IF Truthy(k) THEN Some(Strip(k[1])) ELSE None

\* a baseline fetched whether or not a keyword is given
WantsBaselineIgnoringKeyword(a) == ~a.no_baseline

\* lines 341 and 387: not success_keyword and not args.no_baseline
WantsBaseline(a) == ~Truthy(a.success_keyword) /\ ~a.no_baseline

\* main, lines 320-325 and 362-373: the extra form fields are parsed; on the
\* command line (args.url given) main returns when they are not JSON, in
\* interactive mode it ignores them
CheckExtraData ==
    /\ mainpc = "args"
    /\ IF Truthy(args.extra_data) /\ ~JsonLoads(args.extra_data[1])
       THEN IF args.url
            THEN /\ console' = Append(console, "invalid_extra_data_json")
                 /\ mainpc' = "exit"
            ELSE /\ console' = Append(console, "extra_fields_ignored")
                 /\ mainpc' = "baseline"
       ELSE /\ console' = console
            /\ mainpc' = "baseline"
    /\ UNCHANGED <<args, baseline_sent, exit_status, bfHist>>
    /\ UNCHANGED <<fzVars, pfVars, sqVars, xsVars, psVars, bfInputs, usernames, passwords, tasks, total,
                   bfTasks, bfLoop, saved>>

\* main, lines 341-351, 387-397 and 415-421: the baseline request is answered with r;
\* the values that go into the success_check dict are settled
FetchBaseline(r) ==
    /\ mainpc = "baseline"
    /\ WantsBaseline(args)
    /\ baseline_sent' = baseline_sent + 1
    /\ success_check' = SuccessCheck(StrippedKeyword(args.success_keyword),
                                     Some(r.status_code), Some(Len(r.text)),
                                     args.allow_redirect)
    /\ mainpc' = "load"
    /\ UNCHANGED <<args, console, exit_status, bfHist>>
    /\ UNCHANGED <<fzVars, pfVars, sqVars, xsVars, psVars, userlist, passlist, max_users, max_pass,
                   max_concurrent, retries, delay_between, backoff, usernames,
                   passwords, tasks, total, bfTasks, bfLoop, saved>>

\* main, lines 341-353, 387-399 and 415-421: the baseline request raises; the
\* baseline stays None
BaselineFails ==
    /\ mainpc = "baseline"
    /\ WantsBaseline(args)
    /\ baseline_sent' = baseline_sent + 1
    /\ success_check' = SuccessCheck(StrippedKeyword(args.success_keyword),
                                     None, None, args.allow_redirect)
    /\ mainpc' = "load"
    /\ UNCHANGED <<args, console, exit_status, bfHist>>
    /\ UNCHANGED <<fzVars, pfVars, sqVars, xsVars, psVars, userlist, passlist, max_users, max_pass,
                   max_concurrent, retries, delay_between, backoff, usernames,
                   passwords, tasks, total, bfTasks, bfLoop, saved>>

\* main, lines 337-341, 383-387 and 415-421: no baseline request is made
SkipBaseline ==
    /\ mainpc = "baseline"
    /\ ~WantsBaseline(args)
    /\ success_check' = SuccessCheck(StrippedKeyword(args.success_keyword),
                                     None, None, args.allow_redirect)
    /\ mainpc' = "load"
    /\ UNCHANGED <<mainVars, bfHist>>
    /\ UNCHANGED <<fzVars, pfVars, sqVars, xsVars, psVars, userlist, passlist, max_users, max_pass,
                   max_concurrent, retries, delay_between, backoff, usernames,
                   passwords, tasks, total, bfTasks, bfLoop, saved>>

\* lines 373, 413, 457 and 460-461: main returns, by a bare "return" or off
\* its end, and the module ends: the process exits with status 0
ReturnStatus == 0

\* main returns to the __main__ block
MainReturns ==
    /\ mainpc \in {"exit", "done"}
    /\ exit_status = None
    /\ exit_status' = Some(ReturnStatus)
    /\ UNCHANGED <<args, baseline_sent, console, bfHist>>
    /\ UNCHANGED <<fzVars, pfVars, sqVars, xsVars, psVars, bfInputs, mainpc, usernames, passwords, tasks,
                   total, bfTasks, bfLoop, saved>>

-----------------------------------------------------------------------------
(* directory-fuzzer.py: load_wordlist, test_path, scan_paths, main         *)

FzTaskIds == 1..Len(paths)

FzHolding == {t \in FzTaskIds : fz_pc[t] = "request"}

\* directory-fuzzer's load_wordlist(file_path, limit)
fz_load_wordlist(file, limit) ==
    IF file = None THEN <<>>
    ELSE IF limit > 0 THEN SliceTo(StripLines(file[1]), limit)
         ELSE StripLines(file[1])

\* 200 <= r.status_code < 400
IsActiveStatus(code) == 200 <= code /\ code < 400

\* test_path's result dict of an answered request
PathResult(path, r) ==
    [path |-> path, status_code |-> Some(r.status_code),
     content_length |-> Len(r.content)]

\* test_path's dict of a failed request
PathError(path, e) ==
    [path |-> path, status_code |-> None, error |-> e, content_length |-> 0]

\* p.get("status_code") and 200 <= p["status_code"] < 400
IsSuccessful(p) ==
    /\ p.status_code # None
    /\ p.status_code[1] # 0
    /\ IsActiveStatus(p.status_code[1])

\* main, lines 258-262: load the wordlist; leave when it is empty
FzLoad ==
    /\ fz_mainpc = "load"
    /\ paths' = fz_load_wordlist(fz_wordlist, fz_limit)
    /\ fz_mainpc' = IF paths' = <<>> THEN "exit" ELSE "scan"
    /\ UNCHANGED <<bfVars, pfVars, sqVars, xsVars, psVars, fzInputs, fz_total, fzTasks, found, all_results, fz_saved>>

\* scan_paths, lines 111-130: the semaphore, the progress total and one task
\* per path, each with its done callback
FzCreateTasks ==
    /\ fz_mainpc = "scan"
    /\ active_paths' = <<>>
    /\ fz_sem' = fz_concurrent
    /\ fz_total' = Len(paths)
    /\ fz_completed' = 0
    /\ fz_pc' = [t \in FzTaskIds |-> "start"]
    /\ fz_log' = [t \in FzTaskIds |-> None]
    /\ fz_ret' = [t \in FzTaskIds |-> None]
    /\ fz_mainpc' = "gather"
    /\ UNCHANGED <<bfVars, pfVars, sqVars, xsVars, psVars, fzInputs, paths, found, all_results, fz_saved>>

\* test_path, lines 55-59: enter "async with sem" and send the request
FzAcquire(t) ==
    /\ fz_mainpc = "gather"
    /\ fz_pc[t] = "start"
    /\ fz_sem > 0
    /\ fz_sem' = fz_sem - 1
    /\ fz_pc' = [fz_pc EXCEPT ![t] = "request"]
    /\ UNCHANGED <<bfVars, pfVars, sqVars, xsVars, psVars, fzInputs, fz_mainpc, paths, fz_total, fz_log, fz_ret,
                   active_paths, fz_completed, found, all_results, fz_saved>>

\* test_path, lines 59-76: the request is answered with r
FzRespond(t, r) ==
    /\ fz_mainpc = "gather"
    /\ fz_pc[t] = "request"
    /\ fz_log' = [fz_log EXCEPT ![t] = Some([kind |-> "response", resp |-> r])]
    /\ IF IsActiveStatus(r.status_code)
       THEN /\ active_paths' = Append(active_paths, PathResult(paths[t], r))
            /\ fz_ret' = [fz_ret EXCEPT ![t] = Some(PathResult(paths[t], r))]
       ELSE /\ active_paths' = active_paths
            /\ fz_ret' = [fz_ret EXCEPT ![t] = None]
    /\ fz_sem' = fz_sem + 1
    /\ fz_pc' = [fz_pc EXCEPT ![t] = "finished"]
    /\ UNCHANGED <<bfVars, pfVars, sqVars, xsVars, psVars, fzInputs, fz_mainpc, paths, fz_total, fz_completed, found,
                   all_results, fz_saved>>

\* test_path, lines 78-101: the request raises; e is the text put in the
\* dict (str(e) for a RequestError, "<Type>: <e>" otherwise)
FzFail(t, kind, e) ==
    /\ fz_mainpc = "gather"
    /\ fz_pc[t] = "request"
    /\ fz_log' = [fz_log EXCEPT ![t] = Some([kind |-> kind, error |-> e])]
    /\ fz_ret' = [fz_ret EXCEPT ![t] = Some(PathError(paths[t], e))]
    /\ fz_sem' = fz_sem + 1
    /\ fz_pc' = [fz_pc EXCEPT ![t] = "finished"]
    /\ UNCHANGED <<bfVars, pfVars, sqVars, xsVars, psVars, fzInputs, fz_mainpc, paths, fz_total, active_paths,
                   fz_completed, found, all_results, fz_saved>>

\* scan_paths, line 129: the done callback of a finished task
FzAdvance(t) ==
    /\ fz_mainpc = "gather"
    /\ fz_pc[t] = "finished"
    /\ fz_completed' = Advanced(fz_completed)
    /\ fz_pc' = [fz_pc EXCEPT ![t] = "done"]
    /\ UNCHANGED <<bfVars, pfVars, sqVars, xsVars, psVars, fzInputs, fz_mainpc, paths, fz_total, fz_sem, fz_log,
                   fz_ret, active_paths, found, all_results, fz_saved>>

\* successful = [p for p in active_paths if ...]
RECURSIVE Successful(_)
Successful(ps) ==
    IF ps = <<>> THEN <<>>
    ELSE IF IsSuccessful(Head(ps))
         THEN <<Head(ps)>> \o Successful(Tail(ps))
         ELSE Successful(Tail(ps))

\* what scan_paths returns as the list of all results
AllResults(active) == active

\* scan_paths, lines 133-137: gather returns once every task is done (its
\* own callback on a task runs after the progress callback, which was added
\* first); return successful, active_paths
FzReturn ==
    /\ fz_mainpc = "gather"
    /\ \A t \in FzTaskIds : fz_pc[t] = "done"
    /\ found' = Successful(active_paths)
    /\ all_results' = AllResults(active_paths)
    /\ fz_mainpc' = "returned"
    /\ UNCHANGED <<bfVars, pfVars, sqVars, xsVars, psVars, fzInputs, paths, fz_total, fzTasks, fz_saved>>

\* main, lines 278-279: save_results(all_results, ...)
FzSave ==
    /\ fz_mainpc = "returned"
    /\ fz_saved' = Some(all_results)
    /\ fz_mainpc' = "done"
    /\ UNCHANGED <<bfVars, pfVars, sqVars, xsVars, psVars, fzInputs, paths, fz_total, fzTasks, found, all_results>>

-----------------------------------------------------------------------------
(* param-finder.py: test_param, scan_parameters                            *)

PfTaskIds == 1..Len(pf_params)

\* test_param's dict of an answered request
ParamResult(param, r) ==
    [param |-> param, status_code |-> Some(r.status_code),
     content_length |-> Len(r.content), is_active |-> r.status_code < 400]

\* test_param's dict of a failed request
ParamError(param, e) ==
    [param |-> param, status_code |-> None, content_length |-> 0,
     is_active |-> FALSE, error |-> e]

\* scan_parameters, lines 124-146: the semaphore, the progress total, one
\* task per param with its done callback, and the empty results list
PfCreateTasks ==
    /\ pf_mainpc = "scan"
    /\ active_params' = <<>>
    /\ pf_sem' = pf_concurrent
    /\ pf_total' = Len(pf_params)
    /\ pf_completed' = 0
    /\ pf_pc' = [t \in PfTaskIds |-> "start"]
    /\ pf_ret' = [t \in PfTaskIds |-> None]
    /\ pf_results' = <<>>
    /\ pf_mainpc' = "gather"
    /\ UNCHANGED <<bfVars, fzVars, sqVars, xsVars, psVars, pf_wordlist, pf_limit,
                   pf_params, pf_concurrent, pf_doneq,
                   pf_ended>>

\* test_param, lines 56-61: enter "async with sem" and send the request
PfAcquire(t) ==
    /\ pf_mainpc = "gather"
    /\ pf_pc[t] = "start"
    /\ pf_sem > 0
    /\ pf_sem' = pf_sem - 1
    /\ pf_pc' = [pf_pc EXCEPT ![t] = "request"]
    /\ UNCHANGED <<bfVars, fzVars, sqVars, xsVars, psVars, pf_wordlist, pf_limit,
                   pf_params, pf_concurrent, pf_mainpc,
                   pf_ret, pf_doneq, pf_ended, pf_completed, pf_total,
                   pf_results, active_params>>

\* a test_param task ends with the dict d: its done callbacks run, first
\* the progress callback added at line 142, then as_completed's, which puts
\* the task in the queue of finished tasks
PfFinish(t, d) ==
    /\ pf_mainpc = "gather"
    /\ pf_pc[t] = "request"
    /\ pf_ret' = [pf_ret EXCEPT ![t] = Some(d)]
    /\ pf_sem' = pf_sem + 1
    /\ pf_pc' = [pf_pc EXCEPT ![t] = "returned"]
    /\ pf_completed' = pf_completed + 1
    /\ pf_doneq' = Append(pf_doneq, t)
    /\ pf_ended' = Append(pf_ended, t)
    /\ UNCHANGED <<bfVars, fzVars, sqVars, xsVars, psVars, pf_wordlist, pf_limit,
                   pf_params, pf_concurrent, pf_mainpc,
                   pf_total, pf_results, active_params>>

\* test_param, lines 61-84: the request is answered with r
PfRespond(t, r) == PfFinish(t, ParamResult(pf_params[t], r))

\* test_param, lines 86-112: the request raises; e is the text put in the
\* dict
PfFail(t, e) == PfFinish(t, ParamError(pf_params[t], e))

\* scan_parameters, lines 147-151: one iteration of the completion loop
PfConsume ==
    /\ pf_mainpc = "gather"
    /\ pf_doneq # <<>>
    /\ LET d == pf_ret[pf_doneq[NextDone(pf_doneq)]][1]
       IN  /\ pf_doneq' = Without(pf_doneq, NextDone(pf_doneq))
           /\ pf_results' = Append(pf_results, d)
           /\ active_params' = IF d.is_active
                               THEN Append(active_params, d)
                               ELSE active_params
    /\ UNCHANGED <<bfVars, fzVars, sqVars, xsVars, psVars, pf_wordlist, pf_limit,
                   pf_params, pf_concurrent, pf_mainpc,
                   pf_sem, pf_pc, pf_ret, pf_ended, pf_completed, pf_total>>

\* scan_parameters, line 153: as_completed is exhausted
PfReturn ==
    /\ pf_mainpc = "gather"
    /\ Len(pf_results) = Len(pf_params)
    /\ pf_mainpc' = "returned"
    /\ UNCHANGED <<bfVars, fzVars, sqVars, xsVars, psVars, pf_wordlist, pf_limit,
                   pf_params, pf_concurrent, pf_sem,
                   pf_pc, pf_ret, pf_doneq, pf_ended, pf_completed, pf_total,
                   pf_results, active_params>>

-----------------------------------------------------------------------------
(* SQLi-Scanner.py: test_sqli, run_sqli_scan                               *)

SqTaskIds == 1..Len(sq_tasks)

\* the indicators of test_sqli that can occur in the texts of the model
SqIndicators == {<<"s", "q", "l", "s", "t", "a", "t", "e">>}

\* any(ind in text for ind in indicators), text being resp.text lowered
HasIndicator(text) == \E ind \in SqIndicators : Contains(Lower(text), ind)

\* test_sqli's dict of an answered request
SqliResult(task, r) ==
    [param |-> task.param, payload |-> task.payload,
     status |-> Some(r.status_code),
     result |-> IF HasIndicator(r.text) THEN "vulnerable" ELSE "safe",
     reason |-> [tag |-> IF HasIndicator(r.text)
                         THEN "error_indicator" ELSE ""],
     response_length |-> Len(r.text)]

\* test_sqli's dict of a failed request
SqliError(task, kind, e) ==
    [param |-> task.param, payload |-> task.payload, status |-> None,
     result |-> "error", reason |-> [tag |-> kind, error |-> e],
     response_length |-> 0]

\* run_sqli_scan, lines 164-169 and 171-172: the payload lines, capped
SqPayloads(file, limit) ==
    IF limit > 0 THEN SliceTo(StripLines(file[1]), limit)
    ELSE StripLines(file[1])

\* the (param, payload) of the k-th iteration of "for param in parameters:
\* for payload in payloads"
SqCombo(params, payloads, k) ==
    [param |-> params[((k - 1) \div Len(payloads)) + 1],
     payload |-> payloads[((k - 1) % Len(payloads)) + 1]]

\* run_sqli_scan, lines 163-197: the payloads are loaded (a file that is not
\* found ends the scan with []), then the semaphore, the progress total and
\* one task per (param, payload) with its done callback
SqCreateTasks ==
    /\ sq_mainpc = "load"
    /\ IF sq_wordlist = None
       THEN /\ sq_mainpc' = "returned"
            /\ UNCHANGED <<sq_tasks, sq_sem, sq_pc, sq_ret, sq_total>>
       ELSE LET payloads == SqPayloads(sq_wordlist, sq_max_payloads)
                n == Len(sq_parameters) * Len(payloads)
            IN  /\ sq_tasks' = [k \in 1..n |->
                                   SqCombo(sq_parameters, payloads, k)]
                /\ sq_total' = n
                /\ sq_sem' = sq_concurrent
                /\ sq_pc' = [k \in 1..n |-> "start"]
                /\ sq_ret' = [k \in 1..n |-> None]
                /\ sq_mainpc' = "gather"
    /\ sq_results' = <<>>
    /\ UNCHANGED <<bfVars, fzVars, pfVars, xsVars, psVars, sq_parameters, sq_wordlist,
                   sq_max_payloads, sq_concurrent, sq_doneq, sq_ended,
                   sq_completed>>

\* test_sqli, lines 62-73: enter "async with sem" and send the request
SqAcquire(t) ==
    /\ sq_mainpc = "gather"
    /\ sq_pc[t] = "start"
    /\ sq_sem > 0
    /\ sq_sem' = sq_sem - 1
    /\ sq_pc' = [sq_pc EXCEPT ![t] = "request"]
    /\ UNCHANGED <<bfVars, fzVars, pfVars, xsVars, psVars, sq_parameters, sq_wordlist,
                   sq_max_payloads, sq_concurrent, sq_mainpc, sq_tasks,
                   sq_ret, sq_doneq, sq_ended, sq_completed, sq_total,
                   sq_results>>

\* a test_sqli task ends with the dict d: its done callbacks run, first the
\* progress callback added at line 196, then as_completed's
SqFinish(t, d) ==
    /\ sq_mainpc = "gather"
    /\ sq_pc[t] = "request"
    /\ sq_ret' = [sq_ret EXCEPT ![t] = Some(d)]
    /\ sq_sem' = sq_sem + 1
    /\ sq_pc' = [sq_pc EXCEPT ![t] = "returned"]
    /\ sq_completed' = sq_completed + 1
    /\ sq_doneq' = Append(sq_doneq, t)
    /\ sq_ended' = Append(sq_ended, t)
    /\ UNCHANGED <<bfVars, fzVars, pfVars, xsVars, psVars, sq_parameters, sq_wordlist,
                   sq_max_payloads, sq_concurrent, sq_mainpc, sq_tasks,
                   sq_total, sq_results>>

\* test_sqli, lines 73-126: the request is answered with r
SqRespond(t, r) == SqFinish(t, SqliResult(sq_tasks[t], r))

\* test_sqli, lines 128-151: the request raises
SqFail(t, kind, e) == SqFinish(t, SqliError(sq_tasks[t], kind, e))

\* run_sqli_scan, lines 200-202: one iteration of the completion loop
SqConsume ==
    /\ sq_mainpc = "gather"
    /\ sq_doneq # <<>>
    /\ sq_doneq' = Without(sq_doneq, NextDone(sq_doneq))
    /\ sq_results' =
          Append(sq_results, sq_ret[sq_doneq[NextDone(sq_doneq)]][1])
    /\ UNCHANGED <<bfVars, fzVars, pfVars, xsVars, psVars, sq_parameters, sq_wordlist,
                   sq_max_payloads, sq_concurrent, sq_mainpc, sq_tasks, sq_sem,
                   sq_pc, sq_ret, sq_ended, sq_completed, sq_total>>

\* run_sqli_scan, line 204: as_completed is exhausted
SqReturn ==
    /\ sq_mainpc = "gather"
    /\ Len(sq_results) = Len(sq_tasks)
    /\ sq_mainpc' = "returned"
    /\ UNCHANGED <<bfVars, fzVars, pfVars, xsVars, psVars, sq_parameters, sq_wordlist,
                   sq_max_payloads, sq_concurrent, sq_tasks, sq_sem, sq_pc,
                   sq_ret, sq_doneq, sq_ended, sq_completed, sq_total,
                   sq_results>>

-----------------------------------------------------------------------------
(* param-finder.py: main                                                   *)

\* param-finder's load_wordlist(file_path, limit), lines 157-170
pf_load_wordlist(file, limit) ==
    IF file = None THEN <<>>
    ELSE IF limit > 0 THEN SliceTo(StripLines(file[1]), limit)
         ELSE StripLines(file[1])

\* main, lines 283-287: load the wordlist; print "No parameters to test" and
\* return when it is empty
PfLoad ==
    /\ pf_mainpc = "load"
    /\ pf_params' = pf_load_wordlist(pf_wordlist, pf_limit)
    /\ pf_mainpc' = IF pf_params' = <<>> THEN "exit" ELSE "scan"
    /\ UNCHANGED <<bfVars, fzVars, sqVars, xsVars, psVars, pf_wordlist, pf_limit,
                   pf_concurrent, pf_sem, pf_pc, pf_ret, pf_doneq, pf_ended,
                   pf_completed, pf_total, pf_results, active_params>>

-----------------------------------------------------------------------------
(* XSS-Scanner.py: test_xss, run_xss_scan                                  *)

XsTaskIds == 1..Len(xs_tasks)

\* the test_xss coroutines that have sent their request and await the answer
XsInFlight == {t \in XsTaskIds : xs_pc[t] = "request"}

\* run_xss_scan, lines 51-59: the stripped non-blank lines of the file, cut
\* to max_payloads when that is positive
XsPayloads(file, limit) ==
    IF limit > 0 THEN SliceTo(StripLines(file[1]), limit)
    ELSE StripLines(file[1])

\* test_xss, line 23: the tuple returned for a reflected payload
XssResult(task, r) ==
    [param |-> task.param, payload |-> task.payload,
     status_code |-> r.status_code]

\* run_xss_scan, lines 42-59: leave when there is no parameter or the file
\* is not found, else load the payloads
XsLoad ==
    /\ xs_mainpc = "load"
    /\ xs_mainpc' = IF xs_parameters = <<>> \/ xs_wordlist = None
                    THEN "exit" ELSE "scan"
    /\ UNCHANGED <<bfVars, fzVars, pfVars, sqVars, psVars, xs_parameters,
                   xs_wordlist, xs_max_payloads, xs_tasks, xs_pc, xs_ret,
                   vulns>>

\* run_xss_scan, lines 63-68, and test_xss, lines 9-18: one coroutine per
\* (param, payload); asyncio.gather makes a task of each one, and the event
\* loop runs every task up to its first await, the client.get of line 18,
\* before it handles any answer: nothing stands between a coroutine and its
\* request
XsGather ==
    /\ xs_mainpc = "scan"
    /\ LET payloads == XsPayloads(xs_wordlist, xs_max_payloads)
           n == Len(xs_parameters) * Len(payloads)
       IN  /\ xs_tasks' = [k \in 1..n |->
                              [param |-> xs_parameters[((k - 1) \div Len(payloads)) + 1],
                               payload |-> payloads[((k - 1) % Len(payloads)) + 1]]]
           /\ xs_pc' = [k \in 1..n |-> "request"]
           /\ xs_ret' = [k \in 1..n |-> None]
    /\ xs_mainpc' = "gather"
    /\ UNCHANGED <<bfVars, fzVars, pfVars, sqVars, psVars, xs_parameters,
                   xs_wordlist, xs_max_payloads, vulns>>

\* test_xss, lines 18-28: the request is answered with r
XsRespond(t, r) ==
    /\ xs_mainpc = "gather"
    /\ xs_pc[t] = "request"
    /\ xs_ret' = [xs_ret EXCEPT
                     ![t] = IF Contains(r.text, xs_tasks[t].payload)
                            THEN Some(XssResult(xs_tasks[t], r))
                            ELSE None]
    /\ xs_pc' = [xs_pc EXCEPT ![t] = "returned"]
    /\ UNCHANGED <<bfVars, fzVars, pfVars, sqVars, psVars, xs_parameters,
                   xs_wordlist, xs_max_payloads, xs_mainpc, xs_tasks, vulns>>

\* test_xss, lines 26-28: the request raises
XsFail(t) ==
    /\ xs_mainpc = "gather"
    /\ xs_pc[t] = "request"
    /\ xs_ret' = [xs_ret EXCEPT ![t] = None]
    /\ xs_pc' = [xs_pc EXCEPT ![t] = "returned"]
    /\ UNCHANGED <<bfVars, fzVars, pfVars, sqVars, psVars, xs_parameters,
                   xs_wordlist, xs_max_payloads, xs_mainpc, xs_tasks, vulns>>

\* vulns = [r for r in results if r]
RECURSIVE Truthful(_)
Truthful(rs) ==
    IF rs = <<>> THEN <<>>
    ELSE IF Head(rs) # None
         THEN <<Head(rs)[1]>> \o Truthful(Tail(rs))
         ELSE Truthful(Tail(rs))

\* run_xss_scan, lines 68-71: gather returns once every coroutine has
\* returned
XsReturn ==
    /\ xs_mainpc = "gather"
    /\ \A t \in XsTaskIds : xs_pc[t] = "returned"
    /\ vulns' = Truthful(xs_ret)
    /\ xs_mainpc' = "returned"
    /\ UNCHANGED <<bfVars, fzVars, pfVars, sqVars, psVars, xs_parameters,
                   xs_wordlist, xs_max_payloads, xs_tasks, xs_pc, xs_ret>>

-----------------------------------------------------------------------------
(* port-scan.py: scan_port, port_scan                                      *)

PsFutures == 1..Len(ps_pc)

\* the futures a worker thread of the pool is running
PsRunning == {f \in PsFutures : ps_pc[f] = "running"}

\* scan_port's dict, lines 70-103
ScanResult(port, status) == [port |-> port, status |-> status]

\* port_scan, line 124: executor.submit for the next port of the list; the
\* completion loop starts once every port is submitted
PsSubmit ==
    /\ ps_mainpc = "submit"
    /\ Len(ps_pc) < Len(ps_ports)
    /\ ps_pc' = Append(ps_pc, "queued")
    /\ ps_ret' = Append(ps_ret, None)
    /\ ps_mainpc' = IF Len(ps_pc') = Len(ps_ports) THEN "collect" ELSE "submit"
    /\ UNCHANGED <<bfVars, fzVars, pfVars, sqVars, xsVars, ps_ports,
                   max_threads, open_ports, ps_all_results, ps_completed>>

\* ThreadPoolExecutor(max_workers=max_threads), line 122: a worker thread
\* takes the oldest queued call
PsStart(f) ==
    /\ ps_pc[f] = "queued"
    /\ \A g \in PsFutures : ps_pc[g] = "queued" => f <= g
    /\ Cardinality(PsRunning) < max_threads
    /\ ps_pc' = [ps_pc EXCEPT ![f] = "running"]
    /\ UNCHANGED <<bfVars, fzVars, pfVars, sqVars, xsVars, ps_ports,
                   max_threads, ps_mainpc, ps_ret, open_ports, ps_all_results,
                   ps_completed>>

\* scan_port, lines 58-103, in a worker thread: it returns its dict, which
\* becomes the result of the future
PsScan(f, status) ==
    /\ ps_pc[f] = "running"
    /\ ps_ret' = [ps_ret EXCEPT ![f] = Some(ScanResult(ps_ports[f], status))]
    /\ ps_pc' = [ps_pc EXCEPT ![f] = "finished"]
    /\ UNCHANGED <<bfVars, fzVars, pfVars, sqVars, xsVars, ps_ports,
                   max_threads, ps_mainpc, open_ports, ps_all_results,
                   ps_completed>>

\* concurrent.futures.as_completed: a future is yielded once
Yielded(pcs, f) == [pcs EXCEPT ![f] = "yielded"]

\* port_scan, lines 127-132, in the thread that called port_scan: one
\* iteration of the completion loop, for any finished future
PsCollect(f) ==
    /\ ps_mainpc = "collect"
    /\ ps_pc[f] = "finished"
    /\ ps_pc' = Yielded(ps_pc, f)
    /\ ps_all_results' = Append(ps_all_results, ps_ret[f][1])
    /\ open_ports' = IF ps_ret[f][1].status = "open"
                     THEN Append(open_ports, ps_ret[f][1])
                     ELSE open_ports
    /\ ps_completed' = ps_completed + 1
    /\ UNCHANGED <<bfVars, fzVars, pfVars, sqVars, xsVars, ps_ports,
                   max_threads, ps_mainpc, ps_ret>>

\* port_scan, line 134: as_completed is exhausted
PsReturn ==
    /\ ps_mainpc = "collect"
    /\ \A f \in PsFutures : ps_pc[f] = "yielded"
    /\ ps_mainpc' = "returned"
    /\ UNCHANGED <<bfVars, fzVars, pfVars, sqVars, xsVars, ps_ports,
                   max_threads, ps_pc, ps_ret, open_ports, ps_all_results,
                   ps_completed>>

-----------------------------------------------------------------------------
(* Inputs                                                                  *)

MaxTasks == 2

UserWords == <<Str1("a"), Str1("b"), Str1("c"), Str1("d"), Str1("e")>>
PassWords == <<Str1("x"), Str1("y"), Str1("z"), Str1("v"), Str1("u")>>

\* a readable file holding the first k of the words, one per line
FileOf(words, k) == Some(SubSeq(words, 1, k))

\* what the target may answer to a login attempt
Response(code, text, history) ==
    [status_code |-> code, text |-> text, history |-> history]

BfResponses ==
    {Response(200, Str1("x"), <<>>),
     Response(500, <<"x", "W">>, <<302>>)}

\* str(e) of the httpx.RequestError raised
RequestErrors == {"timeout"}

\* any other exception
UnexpectedErrors == {[type |-> "ValueError", msg |-> "bad"]}

KeywordOnly == SuccessCheck(Some(Str1("w")), None, None, FALSE)
BaselineOnly == SuccessCheck(None, Some(200), Some(1), TRUE)
NoCheck == SuccessCheck(None, None, None, FALSE)

BfChecks == {KeywordOnly, BaselineOnly, NoCheck}

RetriesRange == (-1)..MaxRetries

\* the directory fuzzer before main has read its arguments
FzIdle ==
    /\ fz_wordlist = None
    /\ fz_limit = 0
    /\ fz_concurrent = 1
    /\ fz_mainpc = "idle"
    /\ paths = <<>>
    /\ fz_sem = 0
    /\ fz_pc = <<>>
    /\ fz_log = <<>>
    /\ fz_ret = <<>>
    /\ active_paths = <<>>
    /\ fz_completed = 0
    /\ fz_total = 0
    /\ found = <<>>
    /\ all_results = <<>>
    /\ fz_saved = None

\* the parameter finder before scan_parameters is called
PfIdle ==
    /\ pf_wordlist = None
    /\ pf_limit = 0
    /\ pf_params = <<>>
    /\ pf_concurrent = 1
    /\ pf_mainpc = "idle"
    /\ pf_sem = 0
    /\ pf_pc = <<>>
    /\ pf_ret = <<>>
    /\ pf_doneq = <<>>
    /\ pf_ended = <<>>
    /\ pf_completed = 0
    /\ pf_total = 0
    /\ pf_results = <<>>
    /\ active_params = <<>>

\* the SQLi scanner before run_sqli_scan is called
SqFresh ==
    /\ sq_tasks = <<>>
    /\ sq_sem = 0
    /\ sq_pc = <<>>
    /\ sq_ret = <<>>
    /\ sq_doneq = <<>>
    /\ sq_ended = <<>>
    /\ sq_completed = 0
    /\ sq_total = 0
    /\ sq_results = <<>>

SqIdle ==
    /\ sq_parameters = <<>>
    /\ sq_wordlist = None
    /\ sq_max_payloads = 0
    /\ sq_concurrent = 1
    /\ sq_mainpc = "idle"
    /\ SqFresh

\* the XSS scanner before run_xss_scan is called
XsIdle ==
    /\ xs_parameters = <<>>
    /\ xs_wordlist = None
    /\ xs_max_payloads = 0
    /\ xs_mainpc = "idle"
    /\ xs_tasks = <<>>
    /\ xs_pc = <<>>
    /\ xs_ret = <<>>
    /\ vulns = <<>>

\* the port scanner's run state before port_scan submits a call
PsFresh ==
    /\ ps_pc = <<>>
    /\ ps_ret = <<>>
    /\ open_ports = <<>>
    /\ ps_all_results = <<>>
    /\ ps_completed = 0

\* the port scanner before port_scan is called
PsIdle ==
    /\ ps_ports = <<>>
    /\ max_threads = 1
    /\ ps_mainpc = "idle"
    /\ PsFresh

\* the brute-forcer's run state before the wordlists are loaded
BfFresh ==
    /\ usernames = <<>>
    /\ passwords = <<>>
    /\ tasks = <<>>
    /\ sem = 0
    /\ pc = <<>>
    /\ attempt = <<>>
    /\ sent = <<>>
    /\ last = <<>>
    /\ res = <<>>
    /\ doneq = <<>>
    /\ taken = <<>>
    /\ completed = 0
    /\ total = 0
    /\ results = <<>>
    /\ saved = None
    /\ sleeps = 0
    /\ waits = <<>>
    /\ began = <<>>
    /\ ended = <<>>

\* main's command line once the success check is settled: nothing is left
\* for main to do before it loads the wordlists
ArgsRead ==
    /\ args = None
    /\ baseline_sent = 0
    /\ console = <<>>
    /\ exit_status = None

\* the brute-forcer before main has read its arguments
BfIdle ==
    /\ userlist = None
    /\ passlist = None
    /\ max_users = 0
    /\ max_pass = 0
    /\ max_concurrent = 1
    /\ retries = 0
    /\ success_check = NoCheck
    /\ delay_between = 0
    /\ backoff = 1
    /\ mainpc = "idle"
    /\ ArgsRead
    /\ BfFresh

\* Brute-ForceScan.py's main after the arguments are read and the success
\* check is settled, about to load the wordlists
Init ==
    /\ \E m \in 0..MaxLines, n \in 0..MaxLines :
          /\ m * n <= MaxTasks
          /\ userlist = FileOf(UserWords, m)
          /\ passlist = FileOf(PassWords, n)
    /\ max_users = 0
    /\ max_pass = 0
    /\ max_concurrent \in 1..MaxConcurrent
    /\ retries \in RetriesRange
    /\ success_check \in BfChecks
    /\ delay_between = 0
    /\ backoff = 1
    /\ mainpc = "load"
    /\ ArgsRead
    /\ BfFresh
    /\ FzIdle
    /\ PfIdle
    /\ SqIdle
    /\ XsIdle
    /\ PsIdle

Next ==
    \/ LoadWordlists
    \/ BuildTask
    \/ StartProgress
    \/ \E t \in TaskIds : Acquire(t)
    \/ \E t \in TaskIds, r \in BfResponses : Respond(t, r)
    \/ \E t \in TaskIds, e \in RequestErrors : TransientError(t, e)
    \/ \E t \in TaskIds : Retry(t)
    \/ \E t \in TaskIds, e \in UnexpectedErrors : UnexpectedError(t, e)
    \/ Consume
    \/ ReturnResults
    \/ SaveResults

Spec == Init /\ [][Next]_vars

-----------------------------------------------------------------------------
(* The classifier on its own: one candidate whose request is in flight,    *)
(* answered by any response of a larger set, under any success check       *)

\* a text of length n that starts with head
TextOf(head, n) == head \o Rep("x", n - Len(head))

ClTexts ==
    {TextOf(head, n) : head \in {<<>>}, n \in 0..MaxLen}
    \cup {TextOf(head, n) : head \in {Str1("w")}, n \in 1..MaxLen}

ClResponses ==
    {Response(code, text, history) :
        code \in {200, 404}, text \in ClTexts, history \in {<<>>, <<302>>}}

ClKeywords == {None, Some(<<>>), Some(Str1("W"))}

ClBaselines == (0..MaxBaseline) \cup {100}

ClChecks ==
    {SuccessCheck(k, bs, bl, ar) :
        k \in ClKeywords,
        bs \in {None, Some(200)},
        bl \in {None} \cup {Some(b) : b \in ClBaselines},
        ar \in BOOLEAN}

InitClassify ==
    /\ userlist = FileOf(UserWords, 1)
    /\ passlist = FileOf(PassWords, 1)
    /\ max_users = 0
    /\ max_pass = 0
    /\ max_concurrent = 1
    /\ retries = 0
    /\ success_check \in ClChecks
    /\ mainpc = "gather"
    /\ usernames = load_wordlist(userlist, max_users)
    /\ passwords = load_wordlist(passlist, max_pass)
    /\ tasks = <<Combo(usernames, passwords, 1)>>
    /\ sem = max_concurrent - 1
    /\ pc = <<"request">>
    /\ attempt = <<0>>
    /\ sent = <<1>>
    /\ last = <<None>>
    /\ res = <<None>>
    /\ doneq = <<>>
    /\ taken = <<>>
    /\ completed = 0
    /\ total = 1
    /\ results = <<>>
    /\ saved = None
    /\ delay_between = 0
    /\ backoff = 1
    /\ ArgsRead
    /\ sleeps = 0
    /\ waits = <<<<>>>>
    /\ began = <<Some(0)>>
    /\ ended = <<>>
    /\ FzIdle
    /\ PfIdle
    /\ SqIdle
    /\ XsIdle
    /\ PsIdle

NextClassify == \E r \in ClResponses : Respond(1, r)

SpecClassify == InitClassify /\ [][NextClassify]_vars

-----------------------------------------------------------------------------
(* The candidate generator on its own: wordlist files with blank and       *)
(* padded lines, and the caps, up to the start of the scan                 *)

GenUserLines == {<<>>, Str1(" "), Str1("a"), <<" ", "b", " ">>}
GenPassLines == {<<>>, Str1("x"), <<"y", " ">>}

FilesOver(lines) == {None} \cup {Some(f) : f \in SeqsUpTo(lines, MaxLines)}

InitGen ==
    /\ userlist \in FilesOver(GenUserLines)
    /\ passlist \in FilesOver(GenPassLines)
    /\ max_users \in 0..MaxCap
    /\ max_pass \in 0..MaxCap
    /\ max_concurrent = 1
    /\ retries = 0
    /\ success_check = NoCheck
    /\ delay_between = 0
    /\ backoff = 1
    /\ mainpc = "load"
    /\ ArgsRead
    /\ BfFresh
    /\ FzIdle
    /\ PfIdle
    /\ SqIdle
    /\ XsIdle
    /\ PsIdle

NextGen ==
    \/ LoadWordlists
    \/ BuildTask
    \/ StartProgress

SpecGen == InitGen /\ [][NextGen]_vars

-----------------------------------------------------------------------------
(* The directory fuzzer                                                    *)

FzLines == {Str1("a"), Str1("b")}

FzResponses ==
    {[status_code |-> code, content |-> Str1("x")] : code \in {200, 399, 404}}

FzRequestErrors == {"timeout"}
FzUnexpectedErrors == {"ValueError: bad"}

InitFuzz ==
    /\ fz_wordlist \in {None} \cup {Some(f) : f \in SeqsUpTo(FzLines, MaxPaths)}
    /\ fz_limit \in 0..MaxCap
    /\ fz_concurrent \in 1..MaxConcurrent
    /\ fz_mainpc = "load"
    /\ paths = <<>>
    /\ fz_sem = 0
    /\ fz_pc = <<>>
    /\ fz_log = <<>>
    /\ fz_ret = <<>>
    /\ active_paths = <<>>
    /\ fz_completed = 0
    /\ fz_total = 0
    /\ found = <<>>
    /\ all_results = <<>>
    /\ fz_saved = None
    /\ BfIdle
    /\ PfIdle
    /\ SqIdle
    /\ XsIdle
    /\ PsIdle

NextFuzz ==
    \/ FzLoad
    \/ FzCreateTasks
    \/ \E t \in FzTaskIds : FzAcquire(t)
    \/ \E t \in FzTaskIds, r \in FzResponses : FzRespond(t, r)
    \/ \E t \in FzTaskIds, e \in FzRequestErrors : FzFail(t, "request_error", e)
    \/ \E t \in FzTaskIds, e \in FzUnexpectedErrors : FzFail(t, "exception", e)
    \/ \E t \in FzTaskIds : FzAdvance(t)
    \/ FzReturn
    \/ FzSave

SpecFuzz == InitFuzz /\ [][NextFuzz]_vars

-----------------------------------------------------------------------------
(* A scan session with an inter-submission delay that may be interrupted   *)

MaxDelay == 1

SessionResponses == {Response(200, Str1("x"), <<>>)}
SessionErrors == {"timeout"}

InitSession ==
    /\ \E m \in 0..MaxLines, n \in 0..MaxLines :
          /\ m * n <= MaxTasks
          /\ userlist = FileOf(UserWords, m)
          /\ passlist = FileOf(PassWords, n)
    /\ max_users = 0
    /\ max_pass = 0
    /\ max_concurrent \in 1..MaxConcurrent
    /\ retries \in 0..MaxRetries
    /\ success_check = NoCheck
    /\ delay_between \in 0..MaxDelay
    /\ backoff = 1
    /\ mainpc = "load"
    /\ ArgsRead
    /\ BfFresh
    /\ FzIdle
    /\ PfIdle
    /\ SqIdle
    /\ XsIdle
    /\ PsIdle

NextSession ==
    \/ LoadWordlists
    \/ BuildTask
    \/ StartProgress
    \/ \E t \in TaskIds : Acquire(t)
    \/ \E t \in TaskIds, r \in SessionResponses : Respond(t, r)
    \/ \E t \in TaskIds, e \in SessionErrors : TransientError(t, e)
    \/ \E t \in TaskIds : Retry(t)
    \/ \E t \in TaskIds, e \in UnexpectedErrors : UnexpectedError(t, e)
    \/ Consume
    \/ ReturnResults
    \/ SaveResults
    \/ Interrupt

SpecSession == InitSession /\ [][NextSession]_vars

-----------------------------------------------------------------------------
(* main from its settings on, read from the command line or, once the     *)
(* permission prompt is answered, from the interactive prompts: the         *)
(* configuration checks, the baseline request and a scan of at most one     *)
(* candidate                                                                *)

MainFiles(words) == {None, Some(<<>>), FileOf(words, 1)}

MainArgs ==
    [url : BOOLEAN,
     extra_data : {None, Some(<<"{", "}">>), Some(<<"{">>)},
     success_keyword : {None, Some(Str1(" ")), Some(Str1("w"))},
     no_baseline : BOOLEAN,
     allow_redirect : BOOLEAN]

BaselineResponses ==
    {Response(200, Str1("x"), <<>>), Response(404, <<>>, <<>>)}

InitMain ==
    /\ userlist \in MainFiles(UserWords)
    /\ passlist \in MainFiles(PassWords)
    /\ max_users = 0
    /\ max_pass = 0
    /\ max_concurrent = 1
    /\ retries \in 0..MaxRetries
    /\ success_check = NoCheck
    /\ delay_between = 0
    /\ backoff = 1
    /\ mainpc = "args"
    /\ args \in MainArgs
    /\ baseline_sent = 0
    /\ console = <<>>
    /\ exit_status = None
    /\ BfFresh
    /\ FzIdle
    /\ PfIdle
    /\ SqIdle
    /\ XsIdle
    /\ PsIdle

NextMain ==
    \/ CheckExtraData
    \/ \E r \in BaselineResponses : FetchBaseline(r)
    \/ BaselineFails
    \/ SkipBaseline
    \/ LoadWordlists
    \/ BuildTask
    \/ StartProgress
    \/ \E t \in TaskIds : Acquire(t)
    \/ \E t \in TaskIds, r \in SessionResponses : Respond(t, r)
    \/ \E t \in TaskIds, e \in SessionErrors : TransientError(t, e)
    \/ \E t \in TaskIds : Retry(t)
    \/ \E t \in TaskIds, e \in UnexpectedErrors : UnexpectedError(t, e)
    \/ Consume
    \/ ReturnResults
    \/ SaveResults
    \/ MainReturns

SpecMain == InitMain /\ [][NextMain]_vars

-----------------------------------------------------------------------------
(* The completion loops of the three scanners built on as_completed, each  *)
(* with two candidates and room for both in flight                         *)

OrderParams == <<Str1("a"), Str1("b")>>
OrderPayloads == Some(<<Str1("x"), Str1("y")>>)

PfResponses ==
    {[status_code |-> code, content |-> Str1("x")] : code \in {200, 404}}

SqResponses ==
    {Response(200, <<"S", "q", "l", "s", "t", "A", "t", "e">>, <<>>),
     Response(200, Str1("x"), <<>>)}

InitOrder ==
    /\ userlist = FileOf(UserWords, 1)
    /\ passlist = FileOf(PassWords, 2)
    /\ max_users = 0
    /\ max_pass = 0
    /\ max_concurrent = 2
    /\ retries = 0
    /\ success_check = NoCheck
    /\ delay_between = 0
    /\ backoff = 1
    /\ mainpc = "load"
    /\ ArgsRead
    /\ BfFresh
    /\ FzIdle
    /\ XsIdle
    /\ PsIdle
    /\ pf_wordlist = Some(OrderParams)
    /\ pf_limit = 0
    /\ pf_params = OrderParams
    /\ pf_concurrent = 2
    /\ pf_mainpc = "scan"
    /\ pf_sem = 0
    /\ pf_pc = <<>>
    /\ pf_ret = <<>>
    /\ pf_doneq = <<>>
    /\ pf_ended = <<>>
    /\ pf_completed = 0
    /\ pf_total = 0
    /\ pf_results = <<>>
    /\ active_params = <<>>
    /\ sq_parameters = <<Str1("a")>>
    /\ sq_wordlist \in {None, OrderPayloads}
    /\ sq_max_payloads = 0
    /\ sq_concurrent = 2
    /\ sq_mainpc = "load"
    /\ SqFresh

NextOrder ==
    \/ LoadWordlists
    \/ BuildTask
    \/ StartProgress
    \/ \E t \in TaskIds : Acquire(t)
    \/ \E t \in TaskIds, r \in SessionResponses : Respond(t, r)
    \/ Consume
    \/ ReturnResults
    \/ PfCreateTasks
    \/ \E t \in PfTaskIds : PfAcquire(t)
    \/ \E t \in PfTaskIds, r \in PfResponses : PfRespond(t, r)
    \/ \E t \in PfTaskIds : PfFail(t, "RequestError: timeout")
    \/ PfConsume
    \/ PfReturn
    \/ SqCreateTasks
    \/ \E t \in SqTaskIds : SqAcquire(t)
    \/ \E t \in SqTaskIds, r \in SqResponses : SqRespond(t, r)
    \/ \E t \in SqTaskIds : SqFail(t, "request_error", "timeout")
    \/ SqConsume
    \/ SqReturn

SpecOrder == InitOrder /\ [][NextOrder]_vars

-----------------------------------------------------------------------------
(* A scan under fair scheduling: the event loop runs every task that is    *)
(* ready, and every network call and every sleep ends                      *)

InitLive ==
    /\ \E m \in 0..MaxLines, n \in 0..MaxLines :
          /\ m * n <= MaxTasks
          /\ userlist = FileOf(UserWords, m)
          /\ passlist = FileOf(PassWords, n)
    /\ max_users = 0
    /\ max_pass = 0
    /\ max_concurrent \in 1..MaxConcurrent
    /\ retries \in RetriesRange
    /\ success_check = NoCheck
    /\ delay_between = 0
    /\ backoff = 1
    /\ mainpc = "load"
    /\ ArgsRead
    /\ BfFresh
    /\ FzIdle
    /\ PfIdle
    /\ SqIdle
    /\ XsIdle
    /\ PsIdle

\* the network call of candidate t returns or raises
CallEnds(t) ==
    \/ \E r \in SessionResponses : Respond(t, r)
    \/ \E e \in SessionErrors : TransientError(t, e)
    \/ \E e \in UnexpectedErrors : UnexpectedError(t, e)

NextLive ==
    \/ LoadWordlists
    \/ BuildTask
    \/ StartProgress
    \/ \E t \in TaskIds : Acquire(t)
    \/ \E t \in TaskIds, r \in SessionResponses : Respond(t, r)
    \/ \E t \in TaskIds, e \in SessionErrors : TransientError(t, e)
    \/ \E t \in TaskIds : Retry(t)
    \/ \E t \in TaskIds, e \in UnexpectedErrors : UnexpectedError(t, e)
    \/ Consume
    \/ ReturnResults

\* a step of the attempt_login coroutine of candidate t
TaskStep(t) == Acquire(t) \/ CallEnds(t) \/ Retry(t)

\* a step of the task that runs run_bruteforce
MainStep ==
    LoadWordlists \/ BuildTask \/ StartProgress \/ Consume \/ ReturnResults

\* the event loop runs every task that is ready: the task of run_bruteforce
\* and the task of each candidate
Fairness ==
    /\ WF_vars(MainStep)
    /\ \A t \in 1..MaxTasks : WF_vars(t \in TaskIds /\ TaskStep(t))

SpecLive == InitLive /\ [][NextLive]_vars /\ Fairness

-----------------------------------------------------------------------------
(* The three scanners that read a wordlist, side by side, each about to    *)
(* load a file that is missing, empty, blank or one word long              *)

\* the directory fuzzer's run state before its wordlist is loaded
FzFresh ==
    /\ paths = <<>>
    /\ fz_sem = 0
    /\ fz_pc = <<>>
    /\ fz_log = <<>>
    /\ fz_ret = <<>>
    /\ active_paths = <<>>
    /\ fz_completed = 0
    /\ fz_total = 0
    /\ found = <<>>
    /\ all_results = <<>>
    /\ fz_saved = None

\* the parameter finder's run state before its wordlist is loaded
PfFresh ==
    /\ pf_params = <<>>
    /\ pf_sem = 0
    /\ pf_pc = <<>>
    /\ pf_ret = <<>>
    /\ pf_doneq = <<>>
    /\ pf_ended = <<>>
    /\ pf_completed = 0
    /\ pf_total = 0
    /\ pf_results = <<>>
    /\ active_params = <<>>

AxisFiles(words) ==
    {None, Some(<<>>), Some(<<Str1(" ")>>), FileOf(words, 1)}

InitAxes ==
    /\ userlist \in AxisFiles(UserWords)
    /\ passlist \in AxisFiles(PassWords)
    /\ max_users = 0
    /\ max_pass = 0
    /\ max_concurrent = 1
    /\ retries = 0
    /\ success_check = NoCheck
    /\ delay_between = 0
    /\ backoff = 1
    /\ mainpc = "load"
    /\ ArgsRead
    /\ BfFresh
    /\ fz_wordlist \in AxisFiles(UserWords)
    /\ fz_limit = 0
    /\ fz_concurrent = 1
    /\ fz_mainpc = "load"
    /\ FzFresh
    /\ pf_wordlist \in AxisFiles(UserWords)
    /\ pf_limit = 0
    /\ pf_concurrent = 1
    /\ pf_mainpc = "load"
    /\ PfFresh
    /\ SqIdle
    /\ XsIdle
    /\ PsIdle

NextAxes ==
    \/ LoadWordlists
    \/ BuildTask
    \/ StartProgress
    \/ \E t \in TaskIds : Acquire(t)
    \/ \E t \in TaskIds, r \in SessionResponses : Respond(t, r)
    \/ Consume
    \/ ReturnResults
    \/ SaveResults
    \/ MainReturns
    \/ FzLoad
    \/ FzCreateTasks
    \/ \E t \in FzTaskIds : FzAcquire(t)
    \/ \E t \in FzTaskIds, r \in FzResponses : FzRespond(t, r)
    \/ \E t \in FzTaskIds : FzAdvance(t)
    \/ FzReturn
    \/ PfLoad
    \/ PfCreateTasks
    \/ \E t \in PfTaskIds : PfAcquire(t)
    \/ \E t \in PfTaskIds, r \in PfResponses : PfRespond(t, r)
    \/ PfConsume
    \/ PfReturn

SpecAxes == InitAxes /\ [][NextAxes]_vars

-----------------------------------------------------------------------------
(* The XSS scanner with one parameter and one payload more than the        *)
(* ceiling of the scanners that have one                                   *)

\* DEFAULT_MAX_CONCURRENT of the scanners that limit their requests;
\* XSS-Scanner.py defines no ceiling
DEFAULT_MAX_CONCURRENT == 10

XsWords ==
    <<Str1("a"), Str1("b"), Str1("c"), Str1("d"), Str1("e"), Str1("f"),
      Str1("g"), Str1("h"), Str1("i"), Str1("j"), Str1("k"), Str1("l")>>

\* what the target may answer to a probe: a page that holds the payload or
\* an empty page
XsAnswers(payload) ==
    {Response(200, payload, <<>>), Response(200, <<>>, <<>>)}

InitXss ==
    /\ xs_parameters \in {<<>>, <<Str1("q")>>}
    /\ xs_wordlist \in {None, FileOf(XsWords, DEFAULT_MAX_CONCURRENT + 1)}
    /\ xs_max_payloads \in {0, 1}
    /\ xs_mainpc = "load"
    /\ xs_tasks = <<>>
    /\ xs_pc = <<>>
    /\ xs_ret = <<>>
    /\ vulns = <<>>
    /\ BfIdle
    /\ FzIdle
    /\ PfIdle
    /\ SqIdle
    /\ PsIdle

NextXss ==
    \/ XsLoad
    \/ XsGather
    \/ \E t \in XsTaskIds : \E r \in XsAnswers(xs_tasks[t].payload) : XsRespond(t, r)
    \/ \E t \in XsTaskIds : XsFail(t)
    \/ XsReturn

SpecXss == InitXss /\ [][NextXss]_vars

-----------------------------------------------------------------------------
(* The three result collections side by side: run_bruteforce, scan_paths   *)
(* and port_scan, each with two candidates and room for both at once       *)

AggWords == Some(<<Str1("a"), Str1("b")>>)
AggPorts == <<22, 80>>
AggResponses == BfResponses
AggAnswers == {[status_code |-> code, content |-> Str1("x")] : code \in {200, 404}}
PortStatuses == {"open", "closed"}

InitAggregate ==
    /\ userlist = FileOf(UserWords, 1)
    /\ passlist = FileOf(PassWords, 2)
    /\ max_users = 0
    /\ max_pass = 0
    /\ max_concurrent = 2
    /\ retries = 0
    /\ success_check = BaselineOnly
    /\ delay_between = 0
    /\ backoff = 1
    /\ mainpc = "load"
    /\ ArgsRead
    /\ BfFresh
    /\ fz_wordlist = AggWords
    /\ fz_limit = 0
    /\ fz_concurrent = 2
    /\ fz_mainpc = "load"
    /\ FzFresh
    /\ ps_ports = AggPorts
    /\ max_threads = 2
    /\ ps_mainpc = "submit"
    /\ PsFresh
    /\ PfIdle
    /\ SqIdle
    /\ XsIdle

NextAggregate ==
    \/ LoadWordlists
    \/ BuildTask
    \/ StartProgress
    \/ \E t \in TaskIds : Acquire(t)
    \/ \E t \in TaskIds, r \in AggResponses : Respond(t, r)
    \/ Consume
    \/ ReturnResults
    \/ FzLoad
    \/ FzCreateTasks
    \/ \E t \in FzTaskIds : FzAcquire(t)
    \/ \E t \in FzTaskIds, r \in AggAnswers : FzRespond(t, r)
    \/ \E t \in FzTaskIds : FzAdvance(t)
    \/ FzReturn
    \/ PsSubmit
    \/ \E f \in PsFutures : PsStart(f)
    \/ \E f \in PsFutures, st \in PortStatuses : PsScan(f, st)
    \/ \E f \in PsFutures : PsCollect(f)
    \/ PsReturn

SpecAggregate == InitAggregate /\ [][NextAggregate]_vars

-----------------------------------------------------------------------------
(* run_bruteforce with two candidates whose requests may fail and be       *)
(* retried, for every ceiling, retry budget and backoff multiplier         *)

MaxBackoff == 2

InitRetry ==
    /\ userlist = FileOf(UserWords, 1)
    /\ passlist = FileOf(PassWords, 2)
    /\ max_users = 0
    /\ max_pass = 0
    /\ max_concurrent \in 1..MaxConcurrent
    /\ retries \in 0..(MaxRetries + 1)
    /\ success_check = BaselineOnly
    /\ delay_between = 0
    /\ backoff \in 1..MaxBackoff
    /\ mainpc = "load"
    /\ ArgsRead
    /\ BfFresh
    /\ FzIdle
    /\ PfIdle
    /\ SqIdle
    /\ XsIdle
    /\ PsIdle

NextRetry ==
    \/ LoadWordlists
    \/ BuildTask
    \/ StartProgress
    \/ \E t \in TaskIds : Acquire(t)
    \/ \E t \in TaskIds, r \in BfResponses : Respond(t, r)
    \/ \E t \in TaskIds, e \in SessionErrors : TransientError(t, e)
    \/ \E t \in TaskIds : Retry(t)
    \/ Consume
    \/ ReturnResults

SpecRetry == InitRetry /\ [][NextRetry]_vars

-----------------------------------------------------------------------------
(* Properties                                                              *)

\* how often t occurs in the sequence q
Count(q, t) == Cardinality({i \in DOMAIN q : q[i] = t})

Finished == mainpc \in {"returned", "done"}

\* t's last network call failed, so t ended without a response
EndedInFailure(t) ==
    /\ pc[t] = "returned"
    /\ last[t] # None
    /\ last[t][1].kind \in {"request_error", "exception"}

EndedInResponse(t) ==
    /\ pc[t] = "returned"
    /\ last[t] # None
    /\ last[t][1].kind = "response"

\* C1: the candidates that have entered the semaphore and not yet left it
\* (request in flight or backoff sleep) never number more than
\* max_concurrent, and the semaphore's value accounts for each of them.
C1_ConcurrencyBound ==
    /\ Cardinality(Holding) <= max_concurrent
    /\ mainpc = "gather" => sem + Cardinality(Holding) = max_concurrent

\* every slot is taken while another candidate still waits for one
C1_Witness ==
    /\ mainpc = "gather"
    /\ Cardinality(Holding) = max_concurrent
    /\ \E t \in TaskIds : pc[t] = "start"
    /\ \E t \in TaskIds : pc[t] = "backoff"

\* C2: every candidate produces one outcome and the completion loop takes
\* it once: a candidate is in the completion queue or among the taken ones
\* exactly once when it has returned and not at all before, retrying adds
\* nothing, and when run_bruteforce returns every candidate has returned and
\* the outcomes taken number the candidates submitted.
C2_OneOutcomeEach ==
    /\ \A t \in TaskIds :
          Count(doneq \o taken, t) = (IF pc[t] = "returned" THEN 1 ELSE 0)
    /\ completed = Len(taken)
    /\ Finished =>
          /\ \A t \in TaskIds : pc[t] = "returned" /\ Count(taken, t) = 1
          /\ Len(taken) = Len(usernames) * Len(passwords)
          /\ completed = Len(tasks)

\* a finished scan of two candidates, one of which was retried
C2_Witness ==
    /\ mainpc = "done"
    /\ Len(tasks) = 2
    /\ \E t \in TaskIds : sent[t] = 2

\* C3: a failing probe never aborts the batch: main only ever stands at a
\* point of its normal flow, at its return every candidate has an outcome
\* that was taken once, a candidate whose last call failed has an error
\* outcome (status None), and a candidate whose call was answered has the
\* classification of that answer, whatever the other candidates did.
C3_FailureIsolated ==
    /\ mainpc \in {"load", "exit", "build", "gather", "returned", "done"}
    /\ Finished =>
          /\ Len(taken) = Len(tasks)
          /\ \A t \in TaskIds : pc[t] = "returned" /\ Count(taken, t) = 1
    /\ \A t \in TaskIds :
          /\ EndedInFailure(t) =>
                /\ res[t] # None
                /\ res[t][1].status = None
                /\ res[t][1].reason.tag \in {"request_error", "error"}
                /\ res[t][1].username = tasks[t].username
                /\ res[t][1].password = tasks[t].password
          /\ EndedInResponse(t) =>
                res[t] = Classify(last[t][1].resp, success_check,
                                  tasks[t].username, tasks[t].password)

\* a finished scan in which the first candidate failed on every attempt and
\* the second was answered and reported as a hit
C3_Witness ==
    /\ mainpc = "done"
    /\ Len(tasks) = 2
    /\ EndedInFailure(1)
    /\ sent[1] = retries + 1
    /\ EndedInResponse(2)
    /\ Len(results) = 1
    /\ results[1].username = tasks[2].username
    /\ results[1].password = tasks[2].password

\* C4: with retries >= 0, a candidate is never sent more than retries + 1
\* times, and one that ends on a transient error was sent exactly
\* retries + 1 times and returns status None, reason request_error and the
\* description of that last error; it does not end on a transient error
\* any earlier.
C4_RetriesPlusOneAttempts ==
    retries >= 0 =>
        \A t \in TaskIds :
            /\ sent[t] <= retries + 1
            /\ (last[t] # None /\ last[t][1].kind = "request_error") =>
                  IF pc[t] = "returned"
                  THEN /\ sent[t] = retries + 1
                       /\ res[t] = Some([username |-> tasks[t].username,
                                         password |-> tasks[t].password,
                                         status |-> None,
                                         reason |-> [tag |-> "request_error"],
                                         error |-> last[t][1].error])
                  ELSE sent[t] <= retries + 1 /\ res[t] = None

\* a candidate that failed twice under retries = 1 and has returned
C4_Witness ==
    /\ retries = 1
    /\ \E t \in TaskIds :
          /\ pc[t] = "returned"
          /\ last[t] # None
          /\ last[t][1].kind = "request_error"
          /\ sent[t] = 2

\* the response that ended t, the reason t returned, and the rules on it
Resp(t) == last[t][1].resp
Tag(t) == IF res[t] = None THEN "miss" ELSE res[t][1].reason.tag
KeywordHolds(t) == KeywordRule(Resp(t), success_check)
RedirectHolds(t) == RedirectRule(Resp(t), success_check)
StatusHolds(t) == StatusRule(Resp(t), success_check)

\* C5: the rules are tried in the order keyword, redirect, status change,
\* length and the first that matches gives the reason: keyword:<word> when
\* the keyword rule matches, whatever the others do; else redirect when the
\* redirect rule matches; else status_change:<old>-><new> when the status
\* differs from the baseline; a len_diff reason only when none of the three
\* matches.
C5_FirstRuleWins ==
    \A t \in TaskIds :
        EndedInResponse(t) =>
            /\ KeywordHolds(t) =>
                  /\ res[t] # None
                  /\ res[t][1].reason =
                        [tag |-> "keyword", word |-> success_check.keyword[1]]
            /\ (~KeywordHolds(t) /\ RedirectHolds(t)) =>
                  /\ res[t] # None
                  /\ res[t][1].reason = [tag |-> "redirect"]
            /\ (~KeywordHolds(t) /\ ~RedirectHolds(t) /\ StatusHolds(t)) =>
                  /\ res[t] # None
                  /\ res[t][1].reason =
                        [tag |-> "status_change",
                         old |-> success_check.baseline_status[1],
                         new |-> Resp(t).status_code]
            /\ Tag(t) = "len_diff" =>
                  ~KeywordHolds(t) /\ ~RedirectHolds(t) /\ ~StatusHolds(t)

\* a response on which all four rules match, returned with the keyword reason
C5_Witness ==
    \E t \in TaskIds :
        /\ EndedInResponse(t)
        /\ KeywordHolds(t)
        /\ RedirectHolds(t)
        /\ StatusHolds(t)
        /\ LengthRule(Resp(t), success_check)
        /\ Tag(t) = "keyword"

\* no rule before the length rule matches on the response that ended t
LengthDecides(t) ==
    /\ EndedInResponse(t)
    /\ ~KeywordHolds(t)
    /\ ~RedirectHolds(t)
    /\ ~StatusHolds(t)
    /\ success_check.baseline_len # None

\* C6: when no earlier rule matches and the baseline length is B >= 1, a
\* response of length L is a hit (reason len_diff) exactly when
\* abs(L - B) * 100 >= T * B for the threshold T, and a miss otherwise; with
\* B = 100 and T = 20 the lengths 119 and 81 are misses and 120 and 80 hits.
C6_LengthBoundary ==
    \A t \in TaskIds :
        (LengthDecides(t) /\ success_check.baseline_len[1] >= 1) =>
            LET B == success_check.baseline_len[1]
                L == Len(Resp(t).text)
                T == success_check.len_threshold_pct
                D == IF L >= B THEN L - B ELSE B - L
            IN  /\ IF D * 100 >= T * B
                   THEN Tag(t) = "len_diff"
                   ELSE res[t] = None
                /\ (B = 100 /\ T = 20 /\ L \in {81, 119}) => res[t] = None
                /\ (B = 100 /\ T = 20 /\ L \in {80, 120}) => Tag(t) = "len_diff"

\* baseline 100, a response of length 120, returned as a len_diff hit
C6_Witness ==
    \E t \in TaskIds :
        /\ LengthDecides(t)
        /\ success_check.baseline_len = Some(100)
        /\ Len(Resp(t).text) = 120
        /\ Tag(t) = "len_diff"

\* the words of a wordlist file and the number a cap of c keeps of n words
WordsOf(file) == IF file = None THEN <<>> ELSE StripLines(file[1])
Kept(n, c) == IF c = 0 THEN n ELSE Min(n, c)

\* C7: the caps are applied to each wordlist before the product: once the
\* scan starts there are exactly min(m, Cm) * min(n, Cn) candidates (a cap
\* of 0 keeps all), the pairs of the first min(m, Cm) usernames and the
\* first min(n, Cn) passwords, each once, username-major, and the progress
\* total is that number; before that no more candidates than that exist,
\* and main leaves without any when the product is 0.
C7_CapsBeforeProduct ==
    LET U == WordsOf(userlist)
        P == WordsOf(passlist)
        cu == Kept(Len(U), max_users)
        cp == Kept(Len(P), max_pass)
    IN  /\ Len(tasks) <= cu * cp
        /\ \A i \in 1..cu, j \in 1..cp :
              (i - 1) * cp + j <= Len(tasks) =>
                  tasks[(i - 1) * cp + j] =
                      [username |-> U[i], password |-> P[j]]
        /\ mainpc = "exit" <=> (mainpc # "load" /\ cu * cp = 0)
        /\ mainpc \in {"gather", "returned", "done"} =>
              /\ Len(tasks) = cu * cp
              /\ total = cu * cp

\* two usernames capped to one, two passwords uncapped: two candidates
C7_Witness ==
    /\ mainpc = "gather"
    /\ Len(WordsOf(userlist)) = 2
    /\ max_users = 1
    /\ Len(WordsOf(passlist)) = 2
    /\ max_pass = 0
    /\ Len(tasks) = 2
    /\ total = 2

\* the keyword occurs in the text, letter case aside
HasKeyword(text, word) ==
    \E i \in 0..(Len(text) - Len(word)) :
        \A k \in 1..Len(word) : LowerChar(text[i + k]) = LowerChar(word[k])

\* the scan has returned, only a keyword is configured, and every candidate
\* was answered
KeywordScanDone ==
    /\ Finished
    /\ success_check.keyword # None
    /\ success_check.keyword[1] # <<>>
    /\ ~success_check.allow_redirect
    /\ success_check.baseline_status = None
    /\ success_check.baseline_len = None
    /\ \A t \in TaskIds : EndedInResponse(t)

\* the candidates whose answer holds the keyword
KeywordHits ==
    {t \in TaskIds : HasKeyword(Resp(t).text, success_check.keyword[1])}

\* C8: with only a keyword configured and a transport that always answers,
\* the hits run_bruteforce returns are exactly the candidates whose body
\* holds the keyword case-insensitively, each once with the reason
\* keyword:<keyword>, every other candidate is a miss, and the candidates
\* processed number len(usernames) * len(passwords).
C8_KeywordHitsExactly ==
    KeywordScanDone =>
        /\ Len(results) = Cardinality(KeywordHits)
        /\ \A t \in KeywordHits :
              \E i \in DOMAIN results :
                  /\ results[i].username = tasks[t].username
                  /\ results[i].password = tasks[t].password
                  /\ results[i].reason =
                        [tag |-> "keyword", word |-> success_check.keyword[1]]
                  /\ results[i].status = Some(Resp(t).status_code)
        /\ \A t \in TaskIds \ KeywordHits : res[t] = None
        /\ completed = Len(usernames) * Len(passwords)
        /\ total = Len(usernames) * Len(passwords)

\* two candidates, the keyword in the answer to one of them only: one hit
C8_Witness ==
    /\ KeywordScanDone
    /\ mainpc = "done"
    /\ Len(tasks) = 2
    /\ Cardinality(KeywordHits) = 1
    /\ Len(results) = 1
    /\ \E t \in TaskIds : res[t] = None

\* C9: what run_bruteforce returns and main hands to the persistence step
\* holds one record for every candidate, misses and probe errors included
\* (stated for retries >= 0, where every candidate has been probed).
C9_SavedHoldsEveryOutcome ==
    (retries >= 0 /\ saved # None) =>
        /\ Len(saved[1]) = Len(tasks)
        /\ \A t \in TaskIds :
              \E i \in DOMAIN saved[1] :
                  /\ saved[1][i].username = tasks[t].username
                  /\ saved[1][i].password = tasks[t].password

\* C10: the list of all results that scan_paths returns and main saves
\* holds one record for every path tested, those answered outside 200-399
\* and those whose request failed included.
C10_AllResultsHoldEveryPath ==
    fz_saved # None =>
        /\ Len(fz_saved[1]) = Len(paths)
        /\ \A t \in FzTaskIds :
              \E i \in DOMAIN fz_saved[1] : fz_saved[1][i].path = paths[t]

\* C11: an interrupt aborts no probe that is in flight (a candidate that has
\* sent a request is never cancelled, it ends with its own outcome) and the
\* scan still hands back what it collected: the process never ends after
\* its scan has started without the results having gone to the
\* persistence step.
C11_InterruptDrainsInFlight ==
    /\ \A t \in TaskIds : sent[t] > 0 => pc[t] # "cancelled"
    /\ (exit_status # None /\ tasks # <<>>) => saved # None

\* C14: with delay_between > 0, no two candidates send their first request
\* without a delay_between sleep of run_bruteforce ending between the two.
C14_DelayBetweenStarts ==
    delay_between > 0 =>
        \A t1, t2 \in TaskIds :
            (t1 # t2 /\ began[t1] # None /\ began[t2] # None) =>
                began[t1] # began[t2]

\* main has given up on its configuration: the arguments or the wordlists
ConfigRefused == mainpc = "exit"

\* C12: a run that ends with the "Wordlists invalid or empty" abort has
\* sent no request before it, neither the baseline request nor a probe.
C12_WordlistAbortBeforeNetwork ==
    (\E i \in DOMAIN console : console[i] = "wordlists_invalid_or_empty") =>
        /\ baseline_sent = 0
        /\ \A t \in TaskIds : sent[t] = 0

\* C13: a scan refused for a configuration error (a wordlist that cannot
\* be read or is empty, --extra-data that is not JSON) prints one error
\* line, dispatches no probe and ends with a non-zero exit status.
C13_ConfigErrorReportedOnceNonZero ==
    (ConfigRefused /\ exit_status # None) =>
        /\ Len(console) = 1
        /\ tasks = <<>>
        /\ exit_status # Some(ReturnStatus)

\* C15: outcomes are consumed in completion order, not submission order: in
\* run_bruteforce the candidates taken by the completion loop, and the
\* progress count, follow the order in which the candidates returned; in
\* scan_parameters and run_sqli_scan the i-th result appended is the result
\* of the i-th task that finished, and the progress count is the number of
\* tasks that have finished.
C15_CompletionOrder ==
    /\ Len(taken) <= Len(ended)
    /\ \A i \in DOMAIN taken : taken[i] = ended[i]
    /\ completed = Len(taken)
    /\ Len(pf_results) <= Len(pf_ended)
    /\ \A i \in DOMAIN pf_results : pf_results[i] = pf_ret[pf_ended[i]][1]
    /\ pf_completed = Len(pf_ended)
    /\ Len(sq_results) <= Len(sq_ended)
    /\ \A i \in DOMAIN sq_results : sq_results[i] = sq_ret[sq_ended[i]][1]
    /\ sq_completed = Len(sq_ended)

\* in each scanner the second candidate submitted has been consumed while
\* the first is still waiting for its answer
C15_Witness ==
    /\ taken = <<2>>
    /\ pc[1] = "request"
    /\ Len(pf_results) = 1
    /\ pf_results[1].param = pf_params[2]
    /\ pf_pc[1] = "request"
    /\ Len(sq_results) = 1
    /\ sq_results[1].payload = sq_tasks[2].payload
    /\ sq_pc[1] = "request"

\* C16: under fair scheduling and with every network call ending, a scan
\* that has started eventually returns, and when it returns every candidate
\* has returned, none holds a slot, and the semaphore is back at its
\* ceiling.  A candidate never leaves the returned state, so each candidate
\* that held a slot has released it and each candidate that waited for one
\* has had it (with retries >= 0 it has sent a request) or has returned.
C16_NoDeadlock ==
    /\ (mainpc = "gather") ~> (mainpc = "returned")
    /\ [](mainpc = "returned" =>
             /\ \A t \in TaskIds :
                   /\ pc[t] = "returned"
                   /\ retries >= 0 => sent[t] >= 1
             /\ Holding = {}
             /\ sem = max_concurrent)

\* one slot, held by a candidate in its backoff sleep, while another
\* candidate waits for it
C16_Witness ==
    /\ mainpc = "gather"
    /\ max_concurrent = 1
    /\ sem = 0
    /\ \E t \in TaskIds : pc[t] = "backoff"
    /\ \E t \in TaskIds : pc[t] = "start" /\ sent[t] = 0

\* t's last network call raised an exception other than httpx.RequestError
EndedInException(t) == last[t] # None /\ last[t][1].kind = "exception"

\* C17: an exception other than httpx.RequestError ends the candidate at
\* that attempt, whatever attempts remain: the candidate has returned (it is
\* not in a backoff sleep and sends nothing more, its requests number the
\* attempts started), it has left the semaphore, and its outcome has status
\* None and the reason error:<Type>, not request_error.
C17_NonTransientNotRetried ==
    \A t \in TaskIds :
        EndedInException(t) =>
            /\ pc[t] = "returned"
            /\ t \notin Holding
            /\ sent[t] = attempt[t] + 1
            /\ res[t] = Some([username |-> tasks[t].username,
                              password |-> tasks[t].password,
                              status |-> None,
                              reason |-> [tag |-> "error",
                                          type |-> last[t][1].exc.type],
                              error |-> last[t][1].exc.msg])
            /\ res[t][1].reason.tag # "request_error"

\* retries = 1 and a candidate ended by an exception on its first attempt
C17_Witness ==
    /\ retries = 1
    /\ \E t \in TaskIds :
          /\ EndedInException(t)
          /\ attempt[t] = 0
          /\ sent[t] = 1
          /\ pc[t] = "returned"

\* C18: a call answered with any status code is classified on that attempt
\* and its outcome, hit or miss, is a record carrying that status code; an
\* outcome with status None comes only from a call that raised.
C18_AnsweredCarriesStatus ==
    \A t \in TaskIds :
        /\ (last[t] # None /\ last[t][1].kind = "response") =>
              /\ pc[t] = "returned"
              /\ res[t] # None
              /\ res[t][1].status = Some(last[t][1].resp.status_code)
        /\ (res[t] # None /\ res[t][1].status = None) =>
              last[t][1].kind \in {"request_error", "exception"}

\* C19: a rule whose configuration is absent gives no hit: no keyword
\* reason without a non-empty keyword, no redirect reason without
\* allow_redirect, no status_change reason without a baseline status, no
\* len_diff reason without a baseline length; and with all four absent
\* every answered call is a miss.
C19_AbsentRuleNeverHits ==
    \A t \in TaskIds :
        EndedInResponse(t) =>
            /\ ~Truthy(success_check.keyword) => Tag(t) # "keyword"
            /\ ~success_check.allow_redirect => Tag(t) # "redirect"
            /\ success_check.baseline_status = None =>
                  Tag(t) # "status_change"
            /\ success_check.baseline_len = None => Tag(t) # "len_diff"
            /\ (/\ ~Truthy(success_check.keyword)
                /\ ~success_check.allow_redirect
                /\ success_check.baseline_status = None
                /\ success_check.baseline_len = None) => res[t] = None

\* an empty keyword and nothing else configured: a redirected 404 with a
\* long body is a miss
C19_Witness ==
    \E t \in TaskIds :
        /\ EndedInResponse(t)
        /\ success_check.keyword = Some(<<>>)
        /\ ~success_check.allow_redirect
        /\ success_check.baseline_status = None
        /\ success_check.baseline_len = None
        /\ Resp(t).status_code = 404
        /\ Resp(t).history # <<>>
        /\ Len(Resp(t).text) = MaxLen
        /\ res[t] = None

\* the dict attempt_login returns when t's last call raised
ErrorOutcome(t) ==
    IF last[t][1].kind = "request_error"
    THEN RequestErrorDict(tasks[t].username, tasks[t].password,
                          last[t][1].error)
    ELSE UnexpectedErrorDict(tasks[t].username, tasks[t].password,
                             last[t][1].exc)

\* C20: a candidate whose last call raised returns the error dict of that
\* failure, with status None and the reason request_error or error:<Type>,
\* the same under every success check; the list run_bruteforce builds
\* holds no record of such a candidate and no record with status None or
\* with one of these two reasons.
C20_ErrorBypassesClassifier ==
    /\ \A t \in TaskIds :
          EndedInFailure(t) =>
              /\ res[t] = Some(ErrorOutcome(t))
              /\ res[t][1].status = None
              /\ res[t][1].reason.tag \in {"request_error", "error"}
              /\ \A i \in DOMAIN results :
                    ~(/\ results[i].username = tasks[t].username
                      /\ results[i].password = tasks[t].password)
    /\ \A i \in DOMAIN results :
          /\ results[i].status # None
          /\ results[i].reason.tag \notin {"request_error", "error"}

\* a finished scan under the baseline check with redirects allowed: one
\* candidate ended by an exception, the other answered and listed as a hit
C20_Witness ==
    /\ mainpc = "done"
    /\ success_check = BaselineOnly
    /\ Len(tasks) = 2
    /\ \E t \in TaskIds : EndedInFailure(t) /\ EndedInException(t)
    /\ \E t \in TaskIds : EndedInResponse(t) /\ res[t] # None
    /\ Len(results) = 1

\* the three scanners' axes as the files hold them
BfAxisEmpty == WordsOf(userlist) = <<>> \/ WordsOf(passlist) = <<>>
FzAxisEmpty == WordsOf(fz_wordlist) = <<>>
PfAxisEmpty == WordsOf(pf_wordlist) = <<>>

\* C21: a wordlist that is missing or cannot be read loads as the empty
\* list, and once a scanner has loaded its lists with an axis empty it has
\* left main by the "nothing to scan" return: no candidate exists, no
\* candidate request was sent, the scan function was never entered, and the
\* brute-forcer has printed its line exactly once.  This holds for the
\* brute-forcer, the directory fuzzer and the parameter finder.
C21_EmptyAxisNoWork ==
    /\ mainpc # "load" =>
          /\ userlist = None => usernames = <<>>
          /\ passlist = None => passwords = <<>>
          /\ BfAxisEmpty =>
                /\ mainpc = "exit"
                /\ tasks = <<>> /\ pc = <<>> /\ sent = <<>>
                /\ total = 0 /\ completed = 0 /\ saved = None
                /\ Count(console, "wordlists_invalid_or_empty") = 1
          /\ ~BfAxisEmpty => mainpc # "exit"
    /\ fz_mainpc # "load" =>
          /\ fz_wordlist = None => paths = <<>>
          /\ FzAxisEmpty =>
                /\ fz_mainpc = "exit"
                /\ paths = <<>> /\ fz_pc = <<>> /\ fz_log = <<>>
                /\ fz_total = 0 /\ fz_completed = 0 /\ fz_saved = None
          /\ ~FzAxisEmpty => fz_mainpc # "exit"
    /\ pf_mainpc # "load" =>
          /\ pf_wordlist = None => pf_params = <<>>
          /\ PfAxisEmpty =>
                /\ pf_mainpc = "exit"
                /\ pf_params = <<>> /\ pf_pc = <<>> /\ pf_doneq = <<>>
                /\ pf_total = 0 /\ pf_completed = 0
          /\ ~PfAxisEmpty => pf_mainpc # "exit"

\* the brute-forcer with usernames and a missing password file, the fuzzer
\* with a blank wordlist and the parameter finder with an empty one have all
\* left, and the brute-forcer's process has ended
C21_Witness ==
    /\ userlist = FileOf(UserWords, 1) /\ passlist = None
    /\ mainpc = "exit" /\ exit_status # None
    /\ fz_wordlist = Some(<<Str1(" ")>>) /\ fz_mainpc = "exit"
    /\ pf_wordlist = Some(<<>>) /\ pf_mainpc = "exit"

\* C22: the test_xss probes of run_xss_scan whose request is in flight never
\* number more than the ceiling of 10, however many (parameter, payload)
\* candidates there are.
C22_XssInFlightBounded == Cardinality(XsInFlight) <= DEFAULT_MAX_CONCURRENT

\* the fuzzer's tasks whose done callback has run
FzDone == {t \in DOMAIN fz_pc : fz_pc[t] = "done"}

\* C23: in run_bruteforce and in scan_paths the completed count of the
\* progress bar never goes down, moves by one at a time, counts exactly the
\* candidates whose outcome has been produced (and handed over: awaited by
\* the completion loop, or seen by the task's done callback), never exceeds
\* the total, and equals the total, the number of candidates, when the scan
\* function returns.
C23_ProgressMonotone ==
    /\ [](/\ completed <= total
          /\ completed = Len(taken)
          /\ \A t \in TaskIds : Count(taken, t) <= 1
          /\ \A i \in DOMAIN taken : pc[taken[i]] = "returned"
          /\ mainpc = "returned" => completed = total /\ total = Len(tasks)
          /\ fz_completed <= fz_total
          /\ fz_completed = Cardinality(FzDone)
          /\ fz_mainpc = "returned" =>
                fz_completed = fz_total /\ fz_total = Len(paths))
    /\ [][/\ completed' \in {completed, completed + 1}
          /\ fz_completed' \in {fz_completed, fz_completed + 1}]_vars

\* both scans have returned with the progress of each at its total of two
C23_Witness ==
    /\ mainpc = "returned" /\ completed = 2 /\ total = 2
    /\ fz_mainpc = "returned" /\ fz_completed = 2 /\ fz_total = 2

\* the reported outcomes of the coroutines of q, in the order of q
RECURSIVE ReportedOf(_)
ReportedOf(q) ==
    IF q = <<>> THEN <<>>
    ELSE IF IsReported(res[Head(q)])
         THEN <<res[Head(q)][1]>> \o ReportedOf(Tail(q))
         ELSE ReportedOf(Tail(q))

\* the fuzzer's tasks that were answered with an active status
FzActive ==
    {t \in DOMAIN fz_log :
        /\ fz_log[t] # None
        /\ fz_log[t][1].kind = "response"
        /\ IsActiveStatus(fz_log[t][1].resp.status_code)}

PsYielded == {f \in PsFutures : ps_pc[f] = "yielded"}
PsOpen == {f \in PsYielded : ps_ret[f][1].status = "open"}

\* C25: no update of a result collection is lost or duplicated, whatever the
\* interleaving of the workers.  run_bruteforce's results holds, in the
\* order its completion loop took them, the reported outcome of every
\* coroutine taken, each once; the fuzzer's active_paths holds exactly one
\* entry for every task answered with an active status; port_scan's
\* all_results holds exactly one entry for every future its completion loop
\* was handed and open_ports one for every open port among them; and each
\* collection is complete when its function returns.
C25_NoUpdateLostOrDuplicated ==
    /\ \A t \in TaskIds : Count(taken, t) <= 1
    /\ results = ReportedOf(taken)
    /\ mainpc = "returned" => \A t \in TaskIds : Count(taken, t) = 1
    /\ Len(active_paths) = Cardinality(FzActive)
    /\ \A t \in FzActive :
          Count(active_paths, PathResult(paths[t], fz_log[t][1].resp)) = 1
    /\ Len(ps_all_results) = Cardinality(PsYielded)
    /\ \A f \in PsYielded : Count(ps_all_results, ps_ret[f][1]) = 1
    /\ Len(open_ports) = Cardinality(PsOpen)
    /\ \A f \in PsOpen : Count(open_ports, ps_ret[f][1]) = 1
    /\ ps_completed = Cardinality(PsYielded)
    /\ ps_mainpc = "returned" => Len(ps_all_results) = Len(ps_ports)

\* every collection holds two entries: two hits in results, two active paths
\* appended in the order b, a, and two open ports collected in the order
\* 80, 22
C25_Witness ==
    /\ mainpc = "returned" /\ Len(results) = 2
    /\ fz_mainpc = "returned" /\ Len(active_paths) = 2
    /\ active_paths[1].path = Str1("b")
    /\ ps_mainpc = "returned" /\ Len(open_ports) = 2
    /\ open_ports[1].port = 80

\* t's last network call raised httpx.RequestError and t returned
EndedInRequestError(t) ==
    /\ pc[t] = "returned"
    /\ last[t] # None
    /\ last[t][1].kind = "request_error"

\* C24: the k-th backoff sleep of a candidate lasts backoff * k and follows
\* its k-th failed attempt; a candidate about to send attempt k+1 has slept
\* k times, one that has failed for good has slept retries times after
\* retries + 1 attempts, so backoff*1, ..., backoff*retries and nothing after
\* the final failure; and the username and password of a candidate are the
\* same in every attempt.
C24_LinearBackoff ==
    /\ [](\A t \in TaskIds :
            /\ \A k \in DOMAIN waits[t] : waits[t][k] = backoff * k
            /\ Len(waits[t]) <= retries
            /\ pc[t] = "request" =>
                  Len(waits[t]) = attempt[t] /\ sent[t] = attempt[t] + 1
            /\ pc[t] = "backoff" =>
                  Len(waits[t]) = attempt[t] + 1 /\ sent[t] = attempt[t] + 1
            /\ EndedInRequestError(t) =>
                  /\ Len(waits[t]) = retries
                  /\ sent[t] = retries + 1
                  /\ res[t][1].username = tasks[t].username
                  /\ res[t][1].password = tasks[t].password)
    /\ [][\A t \in TaskIds : tasks'[t] = tasks[t]]_vars

\* with two retries and a multiplier of 2 a candidate that always fails has
\* slept 2 and then 4, and returned its error after the third attempt
C24_Witness ==
    \E t \in TaskIds :
        /\ retries = 2 /\ backoff = 2
        /\ EndedInRequestError(t)
        /\ waits[t] = <<2, 4>>
        /\ sent[t] = 3

\* C27: a candidate is inside "async with semaphore" from its first request
\* to its return, backoff sleeps included: the semaphore's value is always
\* max_concurrent less the candidates in a request or a backoff sleep, a
\* candidate that has entered only leaves by returning and never enters
\* again, and while the candidates inside number max_concurrent, sleeping
\* ones included, no waiting candidate can start.
C27_SlotHeldAcrossBackoff ==
    /\ [](mainpc = "gather" =>
            /\ sem + Cardinality(Holding) = max_concurrent
            /\ sem >= 0
            /\ \A t \in TaskIds :
                  (pc[t] = "start" /\ Cardinality(Holding) = max_concurrent)
                      => ~ENABLED Acquire(t))
    /\ [][\A t \in TaskIds :
            /\ pc[t] \in {"request", "backoff"} =>
                  pc'[t] \in {"request", "backoff", "returned"}
            /\ pc[t] = "returned" => pc'[t] = "returned"
            /\ (pc[t] \in {"request", "backoff"}
                  /\ pc'[t] \in {"request", "backoff"}
                  /\ pc'[t] # pc[t]) => sem' = sem]_vars

\* the ceiling is 1, the first candidate sleeps in backoff and the second
\* has not started
C27_Witness ==
    /\ mainpc = "gather"
    /\ max_concurrent = 1
    /\ Len(tasks) = 2
    /\ pc[1] = "backoff"
    /\ pc[2] = "start"
    /\ sem = 0

\* C28: a candidate whose first j attempts failed transiently and whose next
\* attempt was answered has made exactly j + 1 attempts, makes none after
\* it, and its outcome is the classification of that response alone: a hit
\* dict with the response's status and no error field, or a miss.
C28_RetryRecovers ==
    /\ [](\A t \in TaskIds :
            EndedInResponse(t) =>
                /\ sent[t] = Len(waits[t]) + 1
                /\ attempt[t] = Len(waits[t])
                /\ res[t] = Classify(Resp(t), success_check,
                                     tasks[t].username, tasks[t].password)
                /\ res[t] # None =>
                      /\ "error" \notin DOMAIN res[t][1]
                      /\ res[t][1].status = Some(Resp(t).status_code))
    /\ [][\A t \in TaskIds :
            pc[t] = "returned" =>
                sent'[t] = sent[t] /\ res'[t] = res[t]]_vars

\* one candidate failed once and was then answered with a hit, another
\* failed twice and was then answered with a miss
C28_Witness ==
    \E t, u \in TaskIds :
        /\ EndedInResponse(t) /\ Len(waits[t]) = 1 /\ res[t] # None
        /\ EndedInResponse(u) /\ Len(waits[u]) = 2 /\ res[u] = None

\* C26: with a baseline length of 0 the length rule divides by 1: when no
\* earlier rule matches, the percentage of a response of length L is
\* L * 100 over 1, every response of at least one character is a len_diff
\* hit and an empty response is a miss; and whatever the baseline length,
\* the divisor is at least 1.
C26_ZeroBaselineAsOne ==
    \A t \in TaskIds :
        LengthDecides(t) =>
            LET B == success_check.baseline_len[1]
                L == Len(Resp(t).text)
            IN  /\ Max(1, B) >= 1
                /\ Tag(t) = "len_diff" => res[t][1].reason.over >= 1
                /\ B = 0 =>
                      /\ L >= 1 =>
                            /\ Tag(t) = "len_diff"
                            /\ res[t][1].reason.diff100 = L * 100
                            /\ res[t][1].reason.over = 1
                      /\ L = 0 => res[t] = None

\* baseline length 0: a response of one character has come back a hit
C26_Witness ==
    \E t \in TaskIds :
        /\ LengthDecides(t)
        /\ success_check.baseline_len = Some(0)
        /\ Len(Resp(t).text) = 1
        /\ Tag(t) = "len_diff"

\* baseline length 0: an empty response has come back a miss
C26_WitnessEmpty ==
    \E t \in TaskIds :
        /\ LengthDecides(t)
        /\ success_check.baseline_len = Some(0)
        /\ Len(Resp(t).text) = 0
        /\ res[t] = None

\* C29: a candidate that has returned has sent at least one request,
\* whatever integer --retries was given.
C29_SentBeforeOutcome ==
    \A t \in TaskIds : pc[t] = "returned" => sent[t] >= 1

\* main has settled the success check
Configured ==
    /\ mainpc \notin {"args", "baseline"}
    /\ Count(console, "invalid_extra_data_json") = 0

\* the (status, length) pairs of the responses the baseline request can get
BaselinePairs ==
    {<<Some(r.status_code), Some(Len(r.text))>> : r \in BaselineResponses}

\* C30: in both modes main sends at most one baseline request, and only
\* when no success keyword is given and --no-baseline is absent; once the
\* success check is settled baseline_status and baseline_len are both None
\* or are the status and the length of one and the same response; a
\* baseline request that fails leaves both None and the scan goes on; and
\* the success check does not change from then on, whatever attempt_login
\* does.
C30_BaselineOncePaired ==
    /\ [](/\ baseline_sent <= 1
          /\ baseline_sent = 1 =>
                /\ ~Truthy(args.success_keyword)
                /\ ~args.no_baseline
          /\ Configured =>
                /\ baseline_sent = 1 <=>
                      (~Truthy(args.success_keyword) /\ ~args.no_baseline)
                /\ \/ /\ success_check.baseline_status = None
                      /\ success_check.baseline_len = None
                   \/ /\ baseline_sent = 1
                      /\ <<success_check.baseline_status,
                           success_check.baseline_len>> \in BaselinePairs)
    /\ [][Configured => success_check' = success_check]_vars

\* in interactive mode the baseline request failed, both values are None, and
\* the scan has run its candidate and saved
C30_Witness ==
    /\ ~args.url
    /\ baseline_sent = 1
    /\ success_check.baseline_status = None
    /\ success_check.baseline_len = None
    /\ mainpc = "done"
    /\ Len(tasks) = 1
    /\ pc[1] = "returned"

====
